---- MODULE Spec2Model ----
(***************************************************************************)
(* Model of the firestore-rs client (src/firestore/src/firestore).         *)
(*                                                                         *)
(* Spec: the FirestoreClient operations of client.rs, run one at a time    *)
(* (every operation takes &mut self) against the RPC collaborator.  A      *)
(* network call and its answer are one step of the calling operation: the  *)
(* answer's status is drawn from the statuses the collaborator can give.   *)
(***************************************************************************)
EXTENDS Integers, Sequences, FiniteSets, TLC

(* ---------------- program constants (client.rs) ---------------- *)
MAX_BATCH_WRTIE_SIZE == 450
MAX_WRITE_OPE_IN_TX == 500
MAX_BATCH_GET_DOC_NUM == 1000
\* fvalue/mod.rs line 79: assert!(depth <= 20, ..)
MAX_DEPTH == 20
\* auth/mod.rs line 33: refresh_in_minutes_to_expire of TokenRefresh::default,
\* in minutes
REFRESH_IN_MINUTES_TO_EXPIRE == 5

(* ---------------- bounds of the model ---------------- *)
\* most operations one unit of work pushes / one batch_write is handed
MaxOps == 501
\* most transactions begun in one behaviour (tokens 1..MaxTx)
MaxTx == 1
\* the pages one listing is let fetch: at the last one the collaborator ends
\* the listing
MaxPages == 3
\* the refresh signals the channel is let hold, and the tokens the
\* authenticator is let hand out after the first
MaxSignals == 2
MaxRefresh == 2
\* most filters one query is given
MaxFilters == 3
\* most slashes and segments a document name has after "documents"
MaxNameLen == 8
\* the first nanoseconds of a second that the bridged times have
MaxSubsecNanos == 15

(* ---------------- inputs ---------------- *)
\* partial document paths, as doc_path(None, collection, id) builds them
DocPaths == <<"/test_coll/doc_1", "/test_coll/doc_2">>
DocPathSet == {DocPaths[i] : i \in 1..Len(DocPaths)}
\* the context handed to in_transaction: the kind of operation the unit of
\* work pushes (the tests push new_delete or new_create)
Ctxs == {"Create", "Delete"}
\* values a unit of work returns, and the error it returns
SuccessValues == {100}
UserErrors == {"something went wrong"}
ProjectId == "test_project"

(* ---------------- errors and results ---------------- *)
NoErr == [kind |-> "none", info |-> "", passed |-> 0]
\* a tonic Status converted by `?` without GrpcErrorStatus
StatusErr(code) == [kind |-> "Status", info |-> code, passed |-> 0]
\* Error::from(GrpcErrorStatus::from(status))
GrpcErrorStatus(code) == [kind |-> "GrpcErrorStatus", info |-> code, passed |-> 0]
\* anyhow!("max batch write ... size = {} but passed {}", MAX_BATCH_WRTIE_SIZE, len)
ValidationErr(n) == [kind |-> "Validation", info |-> "max batch write size", passed |-> n]
\* the Err(e) a unit of work returns
UserErr(msg) == [kind |-> "UnitOfWork", info |-> msg, passed |-> 0]
\* anyhow!("panic occured in tx. rollback : {:?}", e)
PanicErr == [kind |-> "PanicInTx", info |-> "panic occured in tx. rollback", passed |-> 0]

NoResult == [tag |-> "None", val |-> <<>>, err |-> NoErr]
Ok(v) == [tag |-> "Ok", val |-> v, err |-> NoErr]
Err(e) == [tag |-> "Err", val |-> <<>>, err |-> e]
\* the operation did not return: a panic unwound through it
Unwound == [tag |-> "Unwound", val |-> <<>>, err |-> NoErr]

(* ---------------- request.rs ---------------- *)
fmt_document_path(project_id, document_path) ==
    <<"projects/", project_id, "/databases/(default)/documents", document_path>>

\* DocumentWriteOperation::new_create / new_upsert / new_delete
DocumentWriteOperation(kind, path) ==
    [document_path |-> path,
     operation |-> IF kind = "Upsert" THEN "Update" ELSE kind,
     update_field_mask |-> <<>>]

\* as into_write, but the write of a Create carries the precondition that
\* the document does not exist
into_write_create_precondition(ope, project_id) ==
    [operation |-> IF ope.operation = "Delete" THEN "Delete" ELSE "Update",
     name |-> fmt_document_path(project_id, ope.document_path),
     update_mask |-> ope.update_field_mask,
     current_document |-> IF ope.operation = "Create" THEN <<[exists |-> FALSE]>> ELSE <<>>]

\* into_operation_and_mask + into_write: Create and Update both become
\* Operation::Update, no precondition (current_document: None)
into_write(ope, project_id) ==
    [operation |-> IF ope.operation = "Delete" THEN "Delete" ELSE "Update",
     name |-> fmt_document_path(project_id, ope.document_path),
     update_mask |-> ope.update_field_mask,
     current_document |-> <<>>]

into_writes(project_id, opes) ==
    [i \in 1..Len(opes) |-> into_write(opes[i], project_id)]

\* the k-th operation a caller builds for a context: the paths alternate so
\* that neighbours differ
OpeOf(ctx, k) == DocumentWriteOperation(ctx, DocPaths[((k - 1) % Len(DocPaths)) + 1])
OpesOf(ctx, n) == [k \in 1..n |-> OpeOf(ctx, k)]

(* ---------------- state ---------------- *)
VARIABLES
    pc,                 \* where the client is: "idle", a point of in_transaction, "returned"
    op,                 \* the operation running or last run
    result,             \* what the operation returned to its caller
    calls,              \* the network calls the operation has issued, in order
    tx_ope,             \* the TransactionOperation of in_transaction
    ctx,                \* the context handed to in_transaction
    maybe_panic_in_tx,  \* what catch_unwind gave back
    invoked,            \* how many times with_tx.call was evaluated
    operations,         \* the operation list handed to batch_write
    serverDocs,         \* collaborator: the documents that exist
    serverTx,           \* collaborator: the state of each transaction token
    serverFields,       \* collaborator: the fields of each document
    chunks,             \* the chunks a chunked operation has still to send
    result_vec,         \* the vector `result` of large_batch_write and of
                        \* fetch_through_all_tokens
    missing_doc_paths,  \* batch_get_documents: the missing markers pushed so far
    result_stream,      \* the response items of the open stream not yet read
    with_each_doc,      \* the documents the caller's callback was invoked with
    next_token          \* fetch_through_all_tokens: the token of the last page

\* the token manager (grpc/auth/mod.rs)
VARIABLES
    current_token,      \* the ArcSwap<AccessToken> shared by every holder
    refreshed,          \* how many tokens the authenticator has handed out since start
    finished,           \* the bool under finish_refreshing's mutex
    finish_lock,        \* who holds finish_refreshing's mutex
    notified,           \* the scheduling thread was woken by notify_one
    lost_notify,        \* notify_one found no thread waiting
    rx,                 \* the refresh signals sent and not yet received
    schedule_pc,        \* where the scheduling thread is
    refresh_pc,         \* where the refresh task is
    stop_pc,            \* who is inside stop_auth_refreshing, if anyone
    manager,            \* the TokenManager value: alive, consumed, dropped
    authorization,      \* the header auth_interceptor put on the last request
    utc_now             \* what Utc::now() gave the check just made, <<>> after it

\* the value bridge (firestore/value/fvalue/mod.rs)
VARIABLES
    fvalue,             \* the FValue handed to to_grpc_value
    grpc_value,         \* what to_grpc_value returned, or that it panicked
    from_grpc,          \* what from_grpc_value made of grpc_value
    value_pc            \* how far the round trip has got

VARIABLES
    filters,            \* QueryBuilder.filters
    structured_query,   \* what QueryBuilder::build returned, <<>> before it
    document_name,      \* the document name handed to FDocumentPath::parse
    parsed_path,        \* what FDocumentPath::parse returned, <<>> before it
    system_time,        \* the SystemTime handed to to_fvalue
    serialized,         \* what to_fvalue returned, <<>> before it
    deserialized,       \* what from_fvalue returned, <<>> before it
    helper_args,        \* the (parent, collection, id) handed to the helpers, and the build
    write_opes,         \* what each new_write_ope_* helper returned, <<>> before it
    native              \* the native integer handed to to_fvalue

loops == <<chunks, result_vec, missing_doc_paths, result_stream, with_each_doc,
           next_token>>

server == <<serverDocs, serverTx, serverFields>>

client == <<pc, op, result, calls, tx_ope, ctx, maybe_panic_in_tx, invoked,
            operations, loops, server>>

tokenManager == <<current_token, refreshed, finished, finish_lock, notified,
                  lost_notify, rx, schedule_pc, refresh_pc, stop_pc, manager,
                  authorization, utc_now>>

bridge == <<fvalue, grpc_value, from_grpc, value_pc>>

library == <<filters, structured_query, document_name, parsed_path, system_time,
             serialized, deserialized, helper_args, write_opes, native>>

vars == <<client, tokenManager, bridge, library>>

\* what no client operation touches
elsewhere == <<tokenManager, bridge, library>>

\* TransactionOperation::new
TransactionOperation_new(transaction) ==
    [transaction |-> transaction, operations |-> <<>>]

NoTx == TransactionOperation_new(0)
NoOutcome == [tag |-> "None", val |-> <<>>, err |-> NoErr]

\* one network call: the procedure, who issued it, the transaction token and
\* the writes it carries, the document it names, and the status it ended with
Call(rpc, by, transaction, writes, name, status) ==
    [rpc |-> rpc, by |-> by, transaction |-> transaction, writes |-> writes,
     name |-> name, status |-> status]

InitClient ==
    /\ pc = "idle"
    /\ op = "none"
    /\ result = NoResult
    /\ calls = <<>>
    /\ tx_ope = NoTx
    /\ ctx = "Create"
    /\ maybe_panic_in_tx = NoOutcome
    /\ invoked = 0
    /\ operations = <<>>
    /\ serverDocs = {}
    /\ serverTx = <<>>
    /\ serverFields = [p \in DocPathSet |-> {}]
    /\ chunks = <<>>
    /\ result_vec = <<>>
    /\ missing_doc_paths = <<>>
    /\ result_stream = <<>>
    /\ with_each_doc = <<>>
    /\ next_token = ""

(* ---------------- the collaborator ---------------- *)
\* the statuses a call can end with besides the one the state decides
TransportFailures == {"Unavailable"}

\* the documents after a list of wire writes is applied in order: the last
\* write to a path decides whether the document exists
ApplyWrites(docs, writes) ==
    {p \in docs \cup {writes[i].name[4] : i \in DOMAIN writes} :
        LET at == {i \in DOMAIN writes : writes[i].name[4] = p}
        IN IF at = {} THEN p \in docs
           ELSE writes[CHOOSE i \in at : \A j \in at : j <= i].operation # "Delete"}

\* the fields every document of the tests is created or written with, and the
\* fields the test crud_object updates it with (client.rs 880, 927-928)
CreateFields == {<<"ssss", "asdf">>}
UpdateFields == {<<"bbb", "null">>}

\* the fields after a list of wire writes is applied in order: an update
\* write carries no update mask (request.rs 256-262) and replaces the
\* document's fields, a delete leaves none
ApplyWritesFields(fields, writes) ==
    [p \in DOMAIN fields |->
        LET at == {i \in DOMAIN writes : writes[i].name[4] = p}
        IN IF at = {} THEN fields[p]
           ELSE IF writes[CHOOSE i \in at : \A j \in at : j <= i].operation = "Delete"
                THEN {}
                ELSE CreateFields]

\* who issues a call: the engine, or the caller's unit of work through the
\* client it was handed
Caller == IF pc = "polling" THEN "unit_of_work" ELSE "client"

\* as add_operation, but the write is also sent at once in a commit call
add_operation_eager(write_operation) ==
    /\ tx_ope' = [tx_ope EXCEPT !.operations = Append(@, write_operation)]
    /\ calls' = Append(calls, Call("commit", "client", 0,
                                   into_writes(ProjectId, <<write_operation>>),
                                   <<>>, "Ok"))
    /\ serverDocs' = ApplyWrites(serverDocs, into_writes(ProjectId, <<write_operation>>))
    /\ serverFields' = ApplyWritesFields(serverFields,
                                         into_writes(ProjectId, <<write_operation>>))
    /\ UNCHANGED serverTx

\* as add_operation, but the operation is put in front of the earlier ones
add_operation_push_front(write_operation) ==
    /\ tx_ope' = [tx_ope EXCEPT !.operations = <<write_operation>> \o @]
    /\ UNCHANGED <<calls, server>>

(* ---------------- TransactionOperation (client.rs 50-65) ---------------- *)
\* add_operation: a push on the handle's vector, and nothing else
add_operation(write_operation) ==
    /\ tx_ope' = [tx_ope EXCEPT !.operations = Append(@, write_operation)]
    /\ UNCHANGED <<calls, server>>

(* ---------------- in_transaction (client.rs 140-183) ---------------- *)
\* lines 144-154: the begin call, `?` on its failure, TransactionOperation::new
in_transaction_begin(c) ==
    /\ pc = "idle"
    /\ Len(serverTx) < MaxTx
    /\ op' = "in_transaction"
    /\ ctx' = c
    /\ maybe_panic_in_tx' = NoOutcome
    /\ invoked' = 0
    /\ UNCHANGED <<operations, serverDocs, serverFields, elsewhere, loops>>
    /\ \E st \in {"Ok"} \cup TransportFailures :
       /\ calls' = <<Call("begin_transaction", Caller, 0, <<>>, <<>>, st)>>
       /\ IF st = "Ok"
         THEN /\ serverTx' = Append(serverTx, "open")
              /\ tx_ope' = TransactionOperation_new(Len(serverTx) + 1)
              /\ result' = NoResult
              /\ pc' = "with_tx_call"
         ELSE /\ serverTx' = serverTx
              /\ tx_ope' = NoTx
              /\ result' = Err(StatusErr(st))
              /\ pc' = "returned"

\* line 155, the argument of AssertUnwindSafe: with_tx.call(self, &mut tx_ope,
\* ctx) is evaluated before catch_unwind wraps what it returns.  An async fn
\* only builds its future here; any other Fn runs its body up to the future
\* it returns, and a panic in that part is outside catch_unwind.
with_tx_call ==
    /\ pc = "with_tx_call"
    /\ invoked' = invoked + 1
    /\ \/ /\ pc' = "polling"
          /\ result' = result
       \/ /\ pc' = "returned"
          /\ result' = Unwound
    /\ UNCHANGED <<op, calls, tx_ope, ctx, maybe_panic_in_tx, operations, server>>
    /\ UNCHANGED <<elsewhere, loops>>

\* the unit of work, polled under catch_unwind: it pushes an operation
uow_add_operation ==
    /\ pc = "polling"
    /\ Len(tx_ope.operations) < MaxOps
    /\ add_operation(OpeOf(ctx, Len(tx_ope.operations) + 1))
    /\ UNCHANGED <<pc, op, result, ctx, maybe_panic_in_tx, invoked, operations>>
    /\ UNCHANGED <<elsewhere, loops>>

\* the unit of work uses the client it was handed (test write_in_transaction:
\* cli_in_tx.create_document(..).await, result dropped, then the delete of
\* that document is pushed)
uow_create_document ==
    /\ pc = "polling"
    /\ ctx = "Delete"
    /\ Len(tx_ope.operations) = 0
    /\ Len(calls) = 1
    /\ LET path == DocPaths[1]
       IN \E st \in (IF path \in serverDocs THEN {"AlreadyExists"} ELSE {"Ok"}) :
            /\ calls' = Append(calls, Call("create_document", Caller, 0, <<>>,
                                           fmt_document_path(ProjectId, path), st))
            /\ serverDocs' = IF st = "Ok" THEN serverDocs \cup {path}
                             ELSE serverDocs
            /\ serverFields' = IF st = "Ok"
                               THEN [serverFields EXCEPT ![path] = CreateFields]
                               ELSE serverFields
    /\ UNCHANGED <<pc, op, result, tx_ope, ctx, maybe_panic_in_tx, invoked,
                   operations, serverTx>>
    /\ UNCHANGED <<elsewhere, loops>>

\* the unit of work ends: Ok(v), Err(e), or a panic caught by catch_unwind
uow_return ==
    /\ pc = "polling"
    /\ \/ \E v \in SuccessValues :
            maybe_panic_in_tx' = [tag |-> "Ok", val |-> <<v>>, err |-> NoErr]
       \/ \E e \in UserErrors :
            maybe_panic_in_tx' = [tag |-> "Err", val |-> <<>>, err |-> UserErr(e)]
       \/ maybe_panic_in_tx' = [tag |-> "Panic", val |-> <<>>, err |-> NoErr]
    /\ pc' = "match"
    /\ UNCHANGED <<op, result, calls, tx_ope, ctx, invoked, operations, server>>
    /\ UNCHANGED <<elsewhere, loops>>

\* commit (client.rs 196-210): one commit call; its failure becomes
\* GrpcErrorStatus; on success the collaborator applies the writes
commit(opes, transaction, st) ==
    /\ calls' = Append(calls, Call("commit", Caller, transaction,
                                   into_writes(ProjectId, opes), <<>>, st))
    /\ IF st = "Ok"
       THEN /\ serverDocs' = ApplyWrites(serverDocs, into_writes(ProjectId, opes))
            /\ serverFields' = ApplyWritesFields(serverFields,
                                                 into_writes(ProjectId, opes))
            /\ serverTx' = [i \in DOMAIN serverTx |->
                              IF i = transaction THEN "committed" ELSE serverTx[i]]
       ELSE UNCHANGED server

\* rollback (client.rs 212-221): one rollback call
rollback(transaction, st) ==
    /\ calls' = Append(calls, Call("rollback", Caller, transaction, <<>>, <<>>, st))
    /\ serverDocs' = serverDocs
    /\ serverFields' = serverFields
    /\ serverTx' = [i \in DOMAIN serverTx |->
                      IF i = transaction /\ st = "Ok" THEN "rolled_back" ELSE serverTx[i]]

\* line 163: the check made before commit
ExceedsLimit(n) == n > MAX_BATCH_WRTIE_SIZE

\* as in_transaction_success, but the commit call carries no token
in_transaction_success_no_token ==
    /\ pc = "match"
    /\ maybe_panic_in_tx.tag = "Ok"
    /\ pc' = "returned"
    /\ IF ExceedsLimit(Len(tx_ope.operations))
       THEN /\ result' = Err(ValidationErr(Len(tx_ope.operations)))
            /\ UNCHANGED <<calls, server>>
       ELSE \E st \in {"Ok"} \cup TransportFailures :
              /\ commit(tx_ope.operations, 0, st)
              /\ result' = IF st = "Ok" THEN Ok(maybe_panic_in_tx.val)
                           ELSE Err(GrpcErrorStatus(st))
    /\ UNCHANGED <<op, tx_ope, ctx, maybe_panic_in_tx, invoked, operations>>
    /\ UNCHANGED <<elsewhere, loops>>

\* as in_transaction_success, but a transaction over the limit is rolled back
\* before the validation error is returned
in_transaction_success_rollback_on_limit ==
    /\ pc = "match"
    /\ maybe_panic_in_tx.tag = "Ok"
    /\ pc' = "returned"
    /\ IF ExceedsLimit(Len(tx_ope.operations))
       THEN /\ result' = Err(ValidationErr(Len(tx_ope.operations)))
            /\ rollback(tx_ope.transaction, "Ok")
       ELSE \E st \in {"Ok"} \cup TransportFailures :
              /\ commit(tx_ope.operations, tx_ope.transaction, st)
              /\ result' = IF st = "Ok" THEN Ok(maybe_panic_in_tx.val)
                           ELSE Err(GrpcErrorStatus(st))
    /\ UNCHANGED <<op, tx_ope, ctx, maybe_panic_in_tx, invoked, operations>>
    /\ UNCHANGED <<elsewhere, loops>>

\* as in_transaction_success, but a failed commit runs the unit of work again
in_transaction_success_retry ==
    /\ pc = "match"
    /\ maybe_panic_in_tx.tag = "Ok"
    /\ IF ExceedsLimit(Len(tx_ope.operations))
       THEN /\ result' = Err(ValidationErr(Len(tx_ope.operations)))
            /\ pc' = "returned"
            /\ tx_ope' = tx_ope
            /\ UNCHANGED <<calls, server>>
       ELSE \E st \in {"Ok"} \cup TransportFailures :
              /\ commit(tx_ope.operations, tx_ope.transaction, st)
              /\ IF st = "Ok"
                 THEN /\ result' = Ok(maybe_panic_in_tx.val)
                      /\ pc' = "returned"
                      /\ tx_ope' = tx_ope
                 ELSE /\ result' = result
                      /\ pc' = "with_tx_call"
                      /\ tx_ope' = TransactionOperation_new(tx_ope.transaction)
    /\ UNCHANGED <<op, ctx, maybe_panic_in_tx, invoked, operations>>
    /\ UNCHANGED <<elsewhere, loops>>

\* as in_transaction_success, but a failed commit call is followed by a
\* rollback call for the same token
in_transaction_success_rollback_after_commit ==
    /\ pc = "match"
    /\ maybe_panic_in_tx.tag = "Ok"
    /\ pc' = "returned"
    /\ IF ExceedsLimit(Len(tx_ope.operations))
       THEN /\ result' = Err(ValidationErr(Len(tx_ope.operations)))
            /\ UNCHANGED <<calls, server>>
       ELSE \E st \in {"Ok"} \cup TransportFailures :
              /\ IF st = "Ok"
                 THEN commit(tx_ope.operations, tx_ope.transaction, st)
                 ELSE /\ calls' = Append(Append(calls, Call("commit", Caller, tx_ope.transaction, into_writes(ProjectId, tx_ope.operations), <<>>, st)), Call("rollback", Caller, tx_ope.transaction, <<>>, <<>>, "Ok"))
                      /\ serverDocs' = serverDocs
                      /\ serverFields' = serverFields
                      /\ serverTx' = [i \in DOMAIN serverTx |-> IF i = tx_ope.transaction THEN "rolled_back" ELSE serverTx[i]]
              /\ result' = IF st = "Ok" THEN Ok(maybe_panic_in_tx.val)
                           ELSE Err(GrpcErrorStatus(st))
    /\ UNCHANGED <<op, tx_ope, ctx, maybe_panic_in_tx, invoked, operations>>
    /\ UNCHANGED <<elsewhere, loops>>

\* as in_transaction_success, but the value of the unit of work is returned
\* whatever the outcome of the commit call
in_transaction_success_value_on_failure ==
    /\ pc = "match"
    /\ maybe_panic_in_tx.tag = "Ok"
    /\ pc' = "returned"
    /\ IF ExceedsLimit(Len(tx_ope.operations))
       THEN /\ result' = Err(ValidationErr(Len(tx_ope.operations)))
            /\ UNCHANGED <<calls, server>>
       ELSE \E st \in {"Ok"} \cup TransportFailures :
              /\ commit(tx_ope.operations, tx_ope.transaction, st)
              /\ result' = Ok(maybe_panic_in_tx.val)
    /\ UNCHANGED <<op, tx_ope, ctx, maybe_panic_in_tx, invoked, operations>>
    /\ UNCHANGED <<elsewhere, loops>>

\* lines 162-174: the unit of work gave Ok(success_value)
in_transaction_success ==
    /\ pc = "match"
    /\ maybe_panic_in_tx.tag = "Ok"
    /\ pc' = "returned"
    /\ IF ExceedsLimit(Len(tx_ope.operations))
       THEN /\ result' = Err(ValidationErr(Len(tx_ope.operations)))
            /\ UNCHANGED <<calls, server>>
       ELSE \E st \in {"Ok"} \cup TransportFailures :
              /\ commit(tx_ope.operations, tx_ope.transaction, st)
              /\ result' = IF st = "Ok" THEN Ok(maybe_panic_in_tx.val)
                           ELSE Err(GrpcErrorStatus(st))
    /\ UNCHANGED <<op, tx_ope, ctx, maybe_panic_in_tx, invoked, operations>>
    /\ UNCHANGED <<elsewhere, loops>>

\* as in_transaction_failure, but the error is returned without a rollback call
in_transaction_failure_no_rollback ==
    /\ pc = "match"
    /\ maybe_panic_in_tx.tag \in {"Err", "Panic"}
    /\ pc' = "returned"
    /\ result' = Err(IF maybe_panic_in_tx.tag = "Err" THEN maybe_panic_in_tx.err
                     ELSE PanicErr)
    /\ UNCHANGED <<calls, server>>
    /\ UNCHANGED <<op, tx_ope, ctx, maybe_panic_in_tx, invoked, operations>>
    /\ UNCHANGED <<elsewhere, loops>>

\* as in_transaction_failure, but a failed rollback call is made once more
in_transaction_failure_retry ==
    /\ pc = "match"
    /\ maybe_panic_in_tx.tag \in {"Err", "Panic"}
    /\ pc' = "returned"
    /\ LET err == IF maybe_panic_in_tx.tag = "Err" THEN maybe_panic_in_tx.err
                  ELSE PanicErr
       IN \E st \in {"Ok"} \cup TransportFailures :
            /\ IF st = "Ok"
               THEN rollback(tx_ope.transaction, st)
               ELSE /\ calls' = calls \o
                         <<Call("rollback", Caller, tx_ope.transaction, <<>>, <<>>, st),
                           Call("rollback", Caller, tx_ope.transaction, <<>>, <<>>, st)>>
                    /\ UNCHANGED server
            /\ result' = IF st = "Ok" THEN Err(err) ELSE Err(GrpcErrorStatus(st))
    /\ UNCHANGED <<op, tx_ope, ctx, maybe_panic_in_tx, invoked, operations>>
    /\ UNCHANGED <<elsewhere, loops>>

\* lines 175-183: the unit of work gave Err(e) or panicked: err is set, the
\* rollback call is made, `?` returns its failure, else Err(err)
in_transaction_failure ==
    /\ pc = "match"
    /\ maybe_panic_in_tx.tag \in {"Err", "Panic"}
    /\ pc' = "returned"
    /\ LET err == IF maybe_panic_in_tx.tag = "Err" THEN maybe_panic_in_tx.err
                  ELSE PanicErr
       IN \E st \in {"Ok"} \cup TransportFailures :
            /\ rollback(tx_ope.transaction, st)
            /\ result' = IF st = "Ok" THEN Err(err) ELSE Err(GrpcErrorStatus(st))
    /\ UNCHANGED <<op, tx_ope, ctx, maybe_panic_in_tx, invoked, operations>>
    /\ UNCHANGED <<elsewhere, loops>>

in_transaction ==
    \/ \E c \in Ctxs : in_transaction_begin(c)
    \/ with_tx_call
    \/ uow_add_operation
    \/ uow_create_document
    \/ uow_return
    \/ in_transaction_success
    \/ in_transaction_failure

(* ---------------- single-call operations ---------------- *)
\* the locals of in_transaction do not outlive it
NoTransactionLocals ==
    /\ tx_ope' = NoTx
    /\ ctx' = "Create"
    /\ maybe_panic_in_tx' = NoOutcome
    /\ invoked' = 0
    /\ operations' = <<>>

\* nor do the locals of a chunked or paged operation
NoLoopLocals ==
    /\ chunks' = <<>>
    /\ result_vec' = <<>>
    /\ missing_doc_paths' = <<>>
    /\ result_stream' = <<>>
    /\ with_each_doc' = <<>>
    /\ next_token' = ""

\* new_document (request.rs): a wire document, its name and its fields
Document(name, fields) == [name |-> name, fields |-> fields]

\* a call with the request it carries and the response it is answered with
\* (none when it fails), beside what Call records
CallWith(rpc, request, response, status) ==
    [rpc |-> rpc, by |-> Caller, transaction |-> 0, writes |-> <<>>,
     name |-> <<>>, status |-> status, request |-> request,
     response |-> response]

\* the write-results the collaborator answers the call_no-th batch call of an
\* operation with: one per write, in the order of the writes
WriteResults(writes, call_no) ==
    [i \in DOMAIN writes |-> [call |-> call_no, write |-> i]]

\* the statuses the collaborator can answer a read of `path` with
GetStatuses(path) ==
    (IF path \in serverDocs THEN {"Ok"} ELSE {"NotFound"})
        \cup TransportFailures \cup {"PermissionDenied"}

\* as get_document_match, without the NotFound arm
get_document_match_strict(st, found) ==
    IF st = "Ok" THEN Ok(<<found>>)
    ELSE Err(GrpcErrorStatus(st))

\* get_document (client.rs 601-610): the match on the call's outcome
get_document_match(st, found) ==
    IF st = "Ok" THEN Ok(<<found>>)
    ELSE IF st = "NotFound" THEN Ok(<<>>)
    ELSE Err(GrpcErrorStatus(st))

\* get_document (client.rs 585-611)
get_document(document_path) ==
    /\ pc = "idle"
    /\ op' = "get_document"
    /\ \E st \in GetStatuses(document_path) :
         /\ calls' = <<Call("get_document", Caller, 0, <<>>,
                            fmt_document_path(ProjectId, document_path), st)>>
         /\ result' = get_document_match(
                          st, Document(fmt_document_path(ProjectId, document_path),
                                       serverFields[document_path]))
    /\ NoTransactionLocals
    /\ pc' = "returned"
    /\ UNCHANGED <<server, elsewhere, loops>>

\* create_document (client.rs 396-419)
create_document(document_path) ==
    /\ pc = "idle"
    /\ op' = "create_document"
    /\ \E st \in (IF document_path \in serverDocs THEN {"AlreadyExists"} ELSE {"Ok"})
                   \cup TransportFailures :
         /\ calls' = <<Call("create_document", Caller, 0, <<>>,
                            fmt_document_path(ProjectId, document_path), st)>>
         /\ result' = IF st = "Ok"
                      THEN Ok(<<Document(fmt_document_path(ProjectId, document_path),
                                         CreateFields)>>)
                      ELSE Err(GrpcErrorStatus(st))
         /\ serverDocs' = IF st = "Ok" THEN serverDocs \cup {document_path}
                          ELSE serverDocs
         /\ serverFields' = IF st = "Ok"
                            THEN [serverFields EXCEPT ![document_path] = CreateFields]
                            ELSE serverFields
    /\ NoTransactionLocals
    /\ pc' = "returned"
    /\ UNCHANGED <<serverTx, elsewhere, loops>>

\* delete_document (client.rs 384-394)
delete_document(document_path) ==
    /\ pc = "idle"
    /\ op' = "delete_document"
    /\ \E st \in {"Ok"} \cup TransportFailures :
         /\ calls' = <<Call("delete_document", Caller, 0, <<>>,
                            fmt_document_path(ProjectId, document_path), st)>>
         /\ result' = IF st = "Ok" THEN Ok(<<>>) ELSE Err(GrpcErrorStatus(st))
         /\ serverDocs' = IF st = "Ok" THEN serverDocs \ {document_path}
                          ELSE serverDocs
         /\ serverFields' = IF st = "Ok"
                            THEN [serverFields EXCEPT ![document_path] = {}]
                            ELSE serverFields
    /\ NoTransactionLocals
    /\ pc' = "returned"
    /\ UNCHANGED <<serverTx, elsewhere, loops>>

\* the sizes of the operation lists handed to batch_write
BatchSizes ==
    {0, 1, MAX_BATCH_WRTIE_SIZE - 1, MAX_BATCH_WRTIE_SIZE,
     MAX_BATCH_WRTIE_SIZE + 1, MaxOps}

\* as BatchTooLarge, off by one
BatchTooLarge_off_by_one(n) == n >= MAX_BATCH_WRTIE_SIZE

\* line 514: the check batch_write makes before the call
BatchTooLarge(n) == n > MAX_BATCH_WRTIE_SIZE

\* batch_write (client.rs 510-531); on success there is one write-result
\* per operation, in the order of the operations
batch_write(opes) ==
    /\ pc = "idle"
    /\ op' = "batch_write"
    /\ operations' = opes
    /\ tx_ope' = NoTx
    /\ ctx' = "Create"
    /\ maybe_panic_in_tx' = NoOutcome
    /\ invoked' = 0
    /\ IF BatchTooLarge(Len(opes))
       THEN /\ result' = Err(ValidationErr(Len(opes)))
            /\ calls' = <<>>
            /\ UNCHANGED server
       ELSE \E st \in {"Ok"} \cup TransportFailures :
              /\ calls' = <<Call("batch_write", Caller, 0,
                                 into_writes(ProjectId, opes), <<>>, st)>>
              /\ result' = IF st = "Ok"
                           THEN Ok(WriteResults(into_writes(ProjectId, opes), 1))
                           ELSE Err(GrpcErrorStatus(st))
              /\ serverDocs' = IF st = "Ok"
                               THEN ApplyWrites(serverDocs, into_writes(ProjectId, opes))
                               ELSE serverDocs
              /\ serverFields' = IF st = "Ok"
                                 THEN ApplyWritesFields(serverFields,
                                                        into_writes(ProjectId, opes))
                                 ELSE serverFields
              /\ UNCHANGED serverTx
    /\ pc' = "returned"
    /\ UNCHANGED <<elsewhere, loops>>

(* ---------------- update_document (client.rs 360-382) ---------------- *)
\* an Option is a sequence of at most one element: None is <<>>
\* to_document_mask (request.rs 180-182)
to_document_mask(mask) ==
    [i \in DOMAIN mask |-> [field_paths |-> mask[i]]]

\* the names of the fields of a payload
FieldNames(fields) == {f[1] : f \in fields}

\* as new_update_document_request, but the update mask defaults to the fields
\* of the payload
new_update_document_request_masked(project_id, document_path, values, update_field_mask, response_field_mask) ==
    [document |-> <<Document(fmt_document_path(project_id, document_path), values)>>,
     update_mask |-> IF update_field_mask = <<>>
                     THEN <<[field_paths |-> FieldNames(values)]>>
                     ELSE to_document_mask(update_field_mask),
     mask |-> to_document_mask(response_field_mask),
     current_document |-> <<>>]

\* new_update_document_request (request.rs 138-153)
new_update_document_request(project_id, document_path, values, update_field_mask, response_field_mask) ==
    [document |-> <<Document(fmt_document_path(project_id, document_path), values)>>,
     update_mask |-> to_document_mask(update_field_mask),
     mask |-> to_document_mask(response_field_mask),
     current_document |-> <<>>]

\* the collaborator: the fields of a document after an update request.  With
\* no update mask the payload replaces them; with one, only the fields it
\* names are set or removed.
UpdatedFields(old, request) ==
    IF request.update_mask = <<>> THEN request.document[1].fields
    ELSE LET named == request.update_mask[1].field_paths
         IN {f \in old : f[1] \notin named}
                \cup {f \in request.document[1].fields : f[1] \in named}

\* the update masks the callers pass: none (test crud_object), or the field
\* of the payload
UpdateFieldMasks == {<<>>, <<FieldNames(UpdateFields)>>}

update_document(document_path, update_field_mask) ==
    /\ pc = "idle"
    /\ op' = "update_document"
    /\ LET request == new_update_document_request(
                          ProjectId, document_path, UpdateFields,
                          update_field_mask, <<>>)
           after == UpdatedFields(serverFields[document_path], request)
       IN \E st \in {"Ok"} \cup TransportFailures :
            /\ calls' = <<CallWith("update_document", request,
                                   IF st = "Ok"
                                   THEN <<Document(request.document[1].name, after)>>
                                   ELSE <<>>, st)>>
            /\ result' = IF st = "Ok"
                         THEN Ok(<<Document(request.document[1].name, after)>>)
                         ELSE Err(GrpcErrorStatus(st))
            /\ serverDocs' = IF st = "Ok" THEN serverDocs \cup {document_path}
                             ELSE serverDocs
            /\ serverFields' = IF st = "Ok"
                               THEN [serverFields EXCEPT ![document_path] = after]
                               ELSE serverFields
    /\ NoTransactionLocals
    /\ pc' = "returned"
    /\ UNCHANGED <<serverTx, elsewhere, loops>>

(* ---------------- large_batch_write (client.rs 498-508) ---------------- *)
\* as slice_chunks, but a last piece shorter than n is left out
slice_chunks_exact(list, n) ==
    [k \in 1..(Len(list) \div n) |-> SubSeq(list, (k - 1) * n + 1, k * n)]

\* slice::chunks(n): consecutive pieces of n elements, the last one shorter
slice_chunks(list, n) ==
    [k \in 1..((Len(list) + n - 1) \div n) |->
        SubSeq(list, (k - 1) * n + 1, IF k * n < Len(list) THEN k * n ELSE Len(list))]

\* the sizes of the operation lists handed to large_batch_write
LargeBatchSizes ==
    {0, 1, MAX_BATCH_WRTIE_SIZE, MAX_BATCH_WRTIE_SIZE + 1,
     2 * MAX_BATCH_WRTIE_SIZE, 2 * MAX_BATCH_WRTIE_SIZE + 1}

\* lines 502-503: the empty result vector and the chunk iterator
large_batch_write(opes) ==
    /\ pc = "idle"
    /\ op' = "large_batch_write"
    /\ operations' = opes
    /\ tx_ope' = NoTx
    /\ ctx' = "Create"
    /\ maybe_panic_in_tx' = NoOutcome
    /\ invoked' = 0
    /\ chunks' = slice_chunks(opes, MAX_BATCH_WRTIE_SIZE)
    /\ result_vec' = <<>>
    /\ result' = NoResult
    /\ calls' = <<>>
    /\ pc' = "next_chunk"
    /\ UNCHANGED <<missing_doc_paths, result_stream, with_each_doc, next_token>>
    /\ UNCHANGED <<server, elsewhere>>

\* as large_batch_write_chunk, but a chunk that fails is skipped
large_batch_write_chunk_skip_failed ==
    /\ pc = "next_chunk"
    /\ op = "large_batch_write"
    /\ IF chunks = <<>>
       THEN /\ result' = Ok(result_vec)
            /\ pc' = "returned"
            /\ UNCHANGED <<calls, chunks, result_vec, server>>
       ELSE \E st \in {"Ok"} \cup TransportFailures :
              LET writes == into_writes(ProjectId, Head(chunks))
              IN /\ calls' = Append(calls, Call("batch_write", Caller, 0, writes,
                                                <<>>, st))
                 /\ chunks' = Tail(chunks)
                 /\ result' = result
                 /\ pc' = "next_chunk"
                 /\ IF st = "Ok"
                    THEN /\ serverDocs' = ApplyWrites(serverDocs, writes)
                         /\ serverFields' = ApplyWritesFields(serverFields, writes)
                         /\ serverTx' = serverTx
                         /\ result_vec' = result_vec
                                \o WriteResults(writes, Len(calls) + 1)
                    ELSE UNCHANGED <<server, result_vec>>
    /\ UNCHANGED <<op, operations, tx_ope, ctx, maybe_panic_in_tx, invoked>>
    /\ UNCHANGED <<missing_doc_paths, result_stream, with_each_doc, next_token>>
    /\ UNCHANGED elsewhere

\* as large_batch_write_chunk, but when a chunk fails the documents the
\* earlier chunks wrote are taken back
large_batch_write_chunk_undo_on_failure ==
    /\ pc = "next_chunk"
    /\ op = "large_batch_write"
    /\ IF chunks = <<>>
       THEN /\ result' = Ok(result_vec)
            /\ pc' = "returned"
            /\ UNCHANGED <<calls, chunks, result_vec, server>>
       ELSE IF BatchTooLarge(Len(Head(chunks)))
       THEN /\ result' = Err(ValidationErr(Len(Head(chunks))))
            /\ pc' = "returned"
            /\ UNCHANGED <<calls, chunks, result_vec, server>>
       ELSE \E st \in {"Ok"} \cup TransportFailures :
              LET writes == into_writes(ProjectId, Head(chunks))
              IN /\ calls' = Append(calls, Call("batch_write", Caller, 0, writes,
                                                <<>>, st))
                 /\ chunks' = Tail(chunks)
                 /\ IF st = "Ok"
                    THEN /\ serverDocs' = ApplyWrites(serverDocs, writes)
                         /\ serverFields' = ApplyWritesFields(serverFields, writes)
                         /\ serverTx' = serverTx
                         /\ result_vec' = result_vec
                                \o WriteResults(writes, Len(calls) + 1)
                         /\ result' = result
                         /\ pc' = "next_chunk"
                    ELSE /\ result' = Err(GrpcErrorStatus(st))
                         /\ pc' = "returned"
                         /\ serverDocs' = serverDocs \ {calls[i].writes[j].name[4] : i \in DOMAIN calls, j \in {1}}
                         /\ UNCHANGED <<serverFields, serverTx, result_vec>>
    /\ UNCHANGED <<op, operations, tx_ope, ctx, maybe_panic_in_tx, invoked>>
    /\ UNCHANGED <<missing_doc_paths, result_stream, with_each_doc, next_token>>
    /\ UNCHANGED elsewhere

\* lines 504-507: one turn of the loop, batch_write on the next chunk, `?`
\* on its failure, append of its results; after the last chunk, Ok(result)
large_batch_write_chunk ==
    /\ pc = "next_chunk"
    /\ op = "large_batch_write"
    /\ IF chunks = <<>>
       THEN /\ result' = Ok(result_vec)
            /\ pc' = "returned"
            /\ UNCHANGED <<calls, chunks, result_vec, server>>
       ELSE IF BatchTooLarge(Len(Head(chunks)))
       THEN /\ result' = Err(ValidationErr(Len(Head(chunks))))
            /\ pc' = "returned"
            /\ UNCHANGED <<calls, chunks, result_vec, server>>
       ELSE \E st \in {"Ok"} \cup TransportFailures :
              LET writes == into_writes(ProjectId, Head(chunks))
              IN /\ calls' = Append(calls, Call("batch_write", Caller, 0, writes,
                                                <<>>, st))
                 /\ chunks' = Tail(chunks)
                 /\ IF st = "Ok"
                    THEN /\ serverDocs' = ApplyWrites(serverDocs, writes)
                         /\ serverFields' = ApplyWritesFields(serverFields, writes)
                         /\ serverTx' = serverTx
                         /\ result_vec' = result_vec
                                \o WriteResults(writes, Len(calls) + 1)
                         /\ result' = result
                         /\ pc' = "next_chunk"
                    ELSE /\ result' = Err(GrpcErrorStatus(st))
                         /\ pc' = "returned"
                         /\ UNCHANGED <<server, result_vec>>
    /\ UNCHANGED <<op, operations, tx_ope, ctx, maybe_panic_in_tx, invoked>>
    /\ UNCHANGED <<missing_doc_paths, result_stream, with_each_doc, next_token>>
    /\ UNCHANGED elsewhere

(* ---------------- batch_get_documents (client.rs 533-583) ---------------- *)
\* new_batch_get_documents_request (request.rs 117-136)
new_batch_get_documents_request(project_id, document_paths, field_mask, transaction) ==
    [documents |-> [i \in DOMAIN document_paths |->
                       fmt_document_path(project_id, document_paths[i])],
     mask |-> to_document_mask(field_mask),
     consistency_selector |-> transaction]

\* the items of a response stream: DocResult::Found, DocResult::Missing, or
\* an item whose result is not set
Found(doc) == [result |-> "Found", found |-> <<doc>>, missing |-> <<>>]
Missing(doc_id) == [result |-> "Missing", found |-> <<>>, missing |-> <<doc_id>>]

\* the collaborator: one item for each document asked for, found or missing
BatchGetResponse(documents) ==
    [i \in DOMAIN documents |->
        IF documents[i][4] \in serverDocs
        THEN Found(Document(documents[i], serverFields[documents[i][4]]))
        ELSE Missing(documents[i])]

Reverse(list) == [i \in DOMAIN list |-> list[Len(list) + 1 - i]]

\* the path of test batch_update_object that never exists (client.rs 1053)
NotExistsPath == "/not_exists_coll/some"

\* the path lists handed to batch_get_documents: those of test
\* batch_update_object, each within one chunk of MAX_BATCH_GET_DOC_NUM
DocumentPathLists ==
    {<<>>,
     <<DocPaths[1]>>,
     <<DocPaths[1], NotExistsPath, DocPaths[2]>>,
     <<DocPaths[1], DocPaths[2]>>}

\* what the caller's callback answers
CallbackErrors == {"callback failed"}

\* line 543: the empty list of missing paths, and the chunk iterator
batch_get_documents(document_paths) ==
    /\ pc = "idle"
    /\ op' = "batch_get_documents"
    /\ chunks' = slice_chunks(document_paths, MAX_BATCH_GET_DOC_NUM)
    /\ missing_doc_paths' = <<>>
    /\ with_each_doc' = <<>>
    /\ result' = NoResult
    /\ calls' = <<>>
    /\ pc' = "next_chunk"
    /\ NoTransactionLocals
    /\ UNCHANGED <<result_vec, result_stream, next_token, server, elsewhere>>

\* lines 544-558 and 577-581: the call for the next chunk, `?` on its
\* failure; after the last chunk the list of missing paths is returned
batch_get_documents_chunk ==
    /\ pc = "next_chunk"
    /\ op = "batch_get_documents"
    /\ IF chunks = <<>>
       THEN /\ result' = Ok(missing_doc_paths)
            /\ pc' = "returned"
            /\ UNCHANGED <<calls, chunks, result_stream>>
       ELSE LET request == new_batch_get_documents_request(
                               ProjectId, Head(chunks), <<>>, <<>>)
            IN \E st \in {"Ok"} \cup TransportFailures :
                 /\ chunks' = Tail(chunks)
                 /\ IF st = "Ok"
                    THEN /\ \E items \in {BatchGetResponse(request.documents),
                                          Reverse(BatchGetResponse(request.documents))} :
                              /\ result_stream' = items
                              /\ calls' = Append(calls,
                                     CallWith("batch_get_documents", request, items, st))
                         /\ result' = result
                         /\ pc' = "stream"
                    ELSE /\ calls' = Append(calls,
                                CallWith("batch_get_documents", request, <<>>, st))
                         /\ result_stream' = <<>>
                         /\ result' = Err(StatusErr(st))
                         /\ pc' = "returned"
    /\ UNCHANGED <<op, operations, tx_ope, ctx, maybe_panic_in_tx, invoked>>
    /\ UNCHANGED <<result_vec, missing_doc_paths, with_each_doc, next_token>>
    /\ UNCHANGED <<server, elsewhere>>

\* as batch_get_documents_item, but a found document is handed to the callback
\* only when no marker has been pushed yet
batch_get_documents_item_skip(each_response, callback) ==
    IF each_response.result = "Found"
    THEN /\ with_each_doc' = IF missing_doc_paths = <<>>
                             THEN Append(with_each_doc, each_response.found[1])
                             ELSE with_each_doc
         /\ missing_doc_paths' = missing_doc_paths
         /\ result_stream' = Tail(result_stream)
         /\ IF callback = "Ok"
            THEN result' = result /\ pc' = "stream"
            ELSE result' = Err(UserErr(callback)) /\ pc' = "returned"
    ELSE /\ missing_doc_paths' = Append(missing_doc_paths, each_response.missing[1])
         /\ with_each_doc' = with_each_doc
         /\ result_stream' = Tail(result_stream)
         /\ result' = result
         /\ pc' = "stream"

\* lines 561-574: the match on one item of the stream
batch_get_documents_item(each_response, callback) ==
    IF each_response.result = "Found"
    THEN /\ with_each_doc' = Append(with_each_doc, each_response.found[1])
         /\ missing_doc_paths' = missing_doc_paths
         /\ result_stream' = Tail(result_stream)
         /\ IF callback = "Ok"
            THEN result' = result /\ pc' = "stream"
            ELSE result' = Err(UserErr(callback)) /\ pc' = "returned"
    ELSE IF each_response.result = "Missing"
    THEN /\ missing_doc_paths' = Append(missing_doc_paths, each_response.missing[1])
         /\ with_each_doc' = with_each_doc
         /\ result_stream' = Tail(result_stream)
         /\ result' = result
         /\ pc' = "stream"
    ELSE /\ result_stream' = <<>>
         /\ pc' = "next_chunk"
         /\ UNCHANGED <<missing_doc_paths, with_each_doc, result>>

\* line 560: result_stream.message().await?: the stream has ended, or it has
\* failed, or it gives its next item
batch_get_documents_message ==
    /\ pc = "stream"
    /\ op = "batch_get_documents"
    /\ \/ /\ result_stream = <<>>
          /\ pc' = "next_chunk"
          /\ UNCHANGED <<result, calls, result_stream, missing_doc_paths,
                         with_each_doc>>
       \/ \E st \in TransportFailures :
            /\ calls' = [calls EXCEPT ![Len(calls)].status = st]
            /\ result' = Err(StatusErr(st))
            /\ pc' = "returned"
            /\ UNCHANGED <<result_stream, missing_doc_paths, with_each_doc>>
       \/ /\ result_stream # <<>>
          /\ \E callback \in {"Ok"} \cup CallbackErrors :
               batch_get_documents_item(Head(result_stream), callback)
          /\ calls' = calls
    /\ UNCHANGED <<op, operations, tx_ope, ctx, maybe_panic_in_tx, invoked>>
    /\ UNCHANGED <<chunks, result_vec, next_token, server, elsewhere>>

(* ---------------- run_query (client.rs 280-312) ---------------- *)
\* the collaborator: an item without a document (partial progress), then one
\* item for each document there is
RunQueryResponse ==
    <<[result |-> "None", found |-> <<>>, missing |-> <<>>]>>
        \o [i \in 1..Len(DocPaths) |->
              IF DocPaths[i] \in serverDocs
              THEN Found(Document(fmt_document_path(ProjectId, DocPaths[i]),
                                  serverFields[DocPaths[i]]))
              ELSE [result |-> "None", found |-> <<>>, missing |-> <<>>]]

\* lines 290-300: the call, `?` on its failure
run_query ==
    /\ pc = "idle"
    /\ op' = "run_query"
    /\ with_each_doc' = <<>>
    /\ \E st \in {"Ok"} \cup TransportFailures :
         /\ calls' = <<CallWith("run_query", [parent |-> "", transaction |-> <<>>],
                                IF st = "Ok" THEN RunQueryResponse ELSE <<>>, st)>>
         /\ IF st = "Ok"
            THEN /\ result_stream' = RunQueryResponse
                 /\ result' = NoResult
                 /\ pc' = "stream"
            ELSE /\ result_stream' = <<>>
                 /\ result' = Err(StatusErr(st))
                 /\ pc' = "returned"
    /\ NoTransactionLocals
    /\ UNCHANGED <<chunks, result_vec, missing_doc_paths, next_token>>
    /\ UNCHANGED <<server, elsewhere>>

\* lines 302-311: one turn of the loop over the stream; at its end
\* Ok(result_num)
run_query_message ==
    /\ pc = "stream"
    /\ op = "run_query"
    /\ \/ /\ result_stream = <<>>
          /\ result' = Ok(<<Len(with_each_doc)>>)
          /\ pc' = "returned"
          /\ UNCHANGED <<calls, result_stream, with_each_doc>>
       \/ \E st \in TransportFailures :
            /\ calls' = [calls EXCEPT ![Len(calls)].status = st]
            /\ result' = Err(StatusErr(st))
            /\ pc' = "returned"
            /\ UNCHANGED <<result_stream, with_each_doc>>
       \/ /\ result_stream # <<>>
          /\ result_stream' = Tail(result_stream)
          /\ calls' = calls
          /\ IF Head(result_stream).result = "Found"
             THEN /\ with_each_doc' = Append(with_each_doc, Head(result_stream).found[1])
                  /\ \E callback \in {"Ok"} \cup CallbackErrors :
                       IF callback = "Ok"
                       THEN result' = result /\ pc' = "stream"
                       ELSE result' = Err(UserErr(callback)) /\ pc' = "returned"
             ELSE UNCHANGED <<with_each_doc, result, pc>>
    /\ UNCHANGED <<op, operations, tx_ope, ctx, maybe_panic_in_tx, invoked>>
    /\ UNCHANGED <<chunks, result_vec, missing_doc_paths, next_token>>
    /\ UNCHANGED <<server, elsewhere>>

(* ------- fetch_through_all_tokens (grpc/macros/mod.rs 31-49) ------- *)
\* the listings built on the macro (client.rs 314-332, 613-635, 667-688)
Listings == {"list_documents", "partition_query", "list_collection_ids"}

\* the pages the collaborator answers a chunk fetch with
Pages ==
    {[items |-> <<"a", "b">>, next_page_token |-> "tok1"],
     [items |-> <<"c">>, next_page_token |-> ""],
     [items |-> <<>>, next_page_token |-> "tok2"],
     [items |-> <<>>, next_page_token |-> ""]}

\* `let next_token = "".to_owned();` (client.rs 321, 622, 677): the binding
\* of the calling function.  The chunk-fetching body is written in the
\* calling function, so its `next_token.clone()` names this binding and not
\* the `next_token` that the macro declares and assigns (a macro's local is
\* not visible to the expressions passed to it).
caller_next_token == ""

\* how each chunk function turns a failed call into its error: the first two
\* by map_err(GrpcErrorStatus::from), list_collection_ids_chunks by `?`
ChunkErr(rpc, st) ==
    IF rpc = "list_collection_ids" THEN StatusErr(st) ELSE GrpcErrorStatus(st)

\* the calling function up to the macro, and the macro's first two lines
list_all(rpc) ==
    /\ pc = "idle"
    /\ op' = rpc
    /\ next_token' = ""
    /\ result_vec' = <<>>
    /\ result' = NoResult
    /\ calls' = <<>>
    /\ pc' = "fetch"
    /\ NoTransactionLocals
    /\ UNCHANGED <<chunks, missing_doc_paths, result_stream, with_each_doc>>
    /\ UNCHANGED <<server, elsewhere>>

\* as fetch_through_all_tokens, but the loop ends at the first page without
\* items
fetch_through_all_tokens_until_empty_page ==
    /\ pc = "fetch"
    /\ op \in Listings
    /\ \E st \in {"Ok"} \cup TransportFailures :
         /\ IF st = "Ok"
            THEN \E response \in Pages :
                   /\ Len(calls) + 1 = MaxPages => response.next_page_token = ""
                   /\ calls' = Append(calls,
                          CallWith(op, [page_token |-> caller_next_token],
                                   <<response>>, st))
                   /\ next_token' = response.next_page_token
                   /\ result_vec' = result_vec \o response.items
                   /\ IF response.items = <<>> \/ response.next_page_token = ""
                      THEN result' = Ok(result_vec') /\ pc' = "returned"
                      ELSE result' = result /\ pc' = "fetch"
            ELSE /\ calls' = Append(calls,
                        CallWith(op, [page_token |-> caller_next_token], <<>>, st))
                 /\ result' = Err(ChunkErr(op, st))
                 /\ pc' = "returned"
                 /\ UNCHANGED <<next_token, result_vec>>
    /\ UNCHANGED <<op, operations, tx_ope, ctx, maybe_panic_in_tx, invoked>>
    /\ UNCHANGED <<chunks, missing_doc_paths, result_stream, with_each_doc>>
    /\ UNCHANGED <<server, elsewhere>>

\* one turn of the macro's loop: the chunk fetch and `?` on its failure, the
\* append of the items, the assignment of next_token, the test that ends the
\* loop with Ok(result)
fetch_through_all_tokens ==
    /\ pc = "fetch"
    /\ op \in Listings
    /\ \E st \in {"Ok"} \cup TransportFailures :
         /\ IF st = "Ok"
            THEN \E response \in Pages :
                   /\ Len(calls) + 1 = MaxPages => response.next_page_token = ""
                   /\ calls' = Append(calls,
                          CallWith(op, [page_token |-> caller_next_token],
                                   <<response>>, st))
                   /\ next_token' = response.next_page_token
                   /\ result_vec' = result_vec \o response.items
                   /\ IF response.next_page_token = ""
                      THEN result' = Ok(result_vec') /\ pc' = "returned"
                      ELSE result' = result /\ pc' = "fetch"
            ELSE /\ calls' = Append(calls,
                        CallWith(op, [page_token |-> caller_next_token], <<>>, st))
                 /\ result' = Err(ChunkErr(op, st))
                 /\ pc' = "returned"
                 /\ UNCHANGED <<next_token, result_vec>>
    /\ UNCHANGED <<op, operations, tx_ope, ctx, maybe_panic_in_tx, invoked>>
    /\ UNCHANGED <<chunks, missing_doc_paths, result_stream, with_each_doc>>
    /\ UNCHANGED <<server, elsewhere>>

\* the caller has its result and goes on to its next call (the tests call the
\* client again and again); the locals of the finished call are gone
caller_continues ==
    /\ pc = "returned"
    /\ pc' = "idle"
    /\ op' = "none"
    /\ result' = NoResult
    /\ calls' = <<>>
    /\ NoTransactionLocals
    /\ NoLoopLocals
    /\ UNCHANGED <<server, elsewhere>>

(* ================= the token manager (grpc/auth/mod.rs) ================= *)
\* the k-th token the authenticator hands out: its secret and its expiration,
\* in minutes, each a minute after the one before
AccessToken(k) == [access_token |-> k, expires_at |-> <<k + REFRESH_IN_MINUTES_TO_EXPIRE + 1>>]

\* what Utc::now() can give, in minutes: from before the first token is due
\* for a refresh to when the last one is
Clock == 0..(MaxRefresh + 1)

\* format!("Bearer {}", ..) (line 274)
Bearer(access_token) == <<"Bearer", access_token>>
NoHeader == <<"none", 0>>

\* TokenManager::start (lines 55-87): the first token, the flag, the channel,
\* the scheduling thread and the refresh task
TokenManager_start ==
    /\ current_token = AccessToken(0)
    /\ refreshed = 0
    /\ finished = FALSE
    /\ finish_lock = "free"
    /\ notified = FALSE
    /\ lost_notify = FALSE
    /\ rx = <<>>
    /\ schedule_pc = "check"
    /\ refresh_pc = "recv"
    /\ stop_pc = "none"
    /\ manager = "alive"
    /\ authorization = NoHeader
    /\ utc_now = <<>>

\* as ArcSwap_store, but the token is written in place, a field at a time
ArcSwap_store_fieldwise(access_token) ==
    current_token' = [current_token EXCEPT !.access_token = access_token.access_token]

\* ArcSwap::store (line 153): the pointer to the new token replaces the
\* pointer to the old one
ArcSwap_store(access_token) ==
    current_token' = access_token

\* ArcSwap::load (lines 112, 274): the token the pointer names
ArcSwap_load == current_token

\* as need_refresh, but a token that has no expiration is always refreshed
need_refresh_unwrap_or_true(current, now) ==
    IF current.expires_at = <<>> THEN TRUE
    ELSE current.expires_at[1] - REFRESH_IN_MINUTES_TO_EXPIRE <= now

\* lines 113-118: expiration_time().map(|e| e - lead <= Utc::now())
\* .unwrap_or(false)
need_refresh(current, now) ==
    IF current.expires_at = <<>> THEN FALSE
    ELSE current.expires_at[1] - REFRESH_IN_MINUTES_TO_EXPIRE <= now

\* lines 112-123: the check of the expiration against Utc::now(), and the
\* signal.  The clock is outside the program: Utc::now() gives any time.
schedule_check ==
    /\ schedule_pc = "check"
    /\ \E now \in Clock :
         /\ need_refresh(ArcSwap_load, now) => Len(rx) < MaxSignals
         /\ rx' = IF need_refresh(ArcSwap_load, now) THEN Append(rx, "schedule") ELSE rx
         /\ utc_now' = <<now>>
    /\ schedule_pc' = "lock"
    /\ UNCHANGED <<current_token, refreshed, finished, finish_lock, notified,
                   lost_notify, refresh_pc, stop_pc, manager, authorization>>
    /\ UNCHANGED <<client, bridge, library>>

\* line 127: finish_lock.lock()
schedule_lock ==
    /\ schedule_pc = "lock"
    /\ finish_lock = "free"
    /\ finish_lock' = "schedule"
    /\ schedule_pc' = "wait"
    /\ utc_now' = <<>>
    /\ UNCHANGED <<current_token, refreshed, finished, notified, lost_notify, rx,
                   refresh_pc, stop_pc, manager, authorization>>
    /\ UNCHANGED <<client, bridge, library>>

\* lines 130-134: wait_timeout gives the mutex up and the thread waits
schedule_wait ==
    /\ schedule_pc = "wait"
    /\ finish_lock' = "free"
    /\ notified' = FALSE
    /\ schedule_pc' = "waiting"
    /\ UNCHANGED <<current_token, refreshed, finished, lost_notify, rx,
                   refresh_pc, stop_pc, manager, authorization>>
    /\ UNCHANGED <<client, bridge, library, utc_now>>

\* as wait_timeout_returns, but without the timeout: only a notification
\* ends the wait
wait_returns_when_notified ==
    /\ schedule_pc = "waiting"
    /\ notified
    /\ finish_lock = "free"
    /\ finish_lock' = "schedule"
    /\ notified' = FALSE
    /\ schedule_pc' = "woken"
    /\ UNCHANGED <<current_token, refreshed, finished, lost_notify, rx,
                   refresh_pc, stop_pc, manager, authorization>>
    /\ UNCHANGED <<client, bridge, library, utc_now>>

\* as wait_timeout_returns, but the thread goes from its wait to the next
\* check without reading the flag
wait_timeout_returns_unchecked ==
    /\ schedule_pc = "waiting"
    /\ finish_lock = "free"
    /\ finish_lock' = "free"
    /\ notified' = FALSE
    /\ schedule_pc' = "check"
    /\ UNCHANGED <<current_token, refreshed, finished, lost_notify, rx, refresh_pc, stop_pc, manager, authorization>>
    /\ UNCHANGED <<client, bridge, library, utc_now>>

\* lines 130-136: wait_timeout returns, on a notification or when
\* refresh_check_duration has passed, with the mutex taken again
wait_timeout_returns ==
    /\ schedule_pc = "waiting"
    /\ finish_lock = "free"
    /\ finish_lock' = "schedule"
    /\ notified' = FALSE
    /\ schedule_pc' = "woken"
    /\ UNCHANGED <<current_token, refreshed, finished, lost_notify, rx,
                   refresh_pc, stop_pc, manager, authorization>>
    /\ UNCHANGED <<client, bridge, library, utc_now>>

\* as schedule_finished, but the loop goes on from the lock, without another
\* look at the token
schedule_finished_no_recheck ==
    /\ schedule_pc = "woken"
    /\ finish_lock' = "free"
    /\ schedule_pc' = IF finished THEN "exited" ELSE "lock"
    /\ UNCHANGED <<current_token, refreshed, finished, notified, lost_notify, rx,
                   refresh_pc, stop_pc, manager, authorization>>
    /\ UNCHANGED <<client, bridge, library, utc_now>>

\* lines 138-143: the flag is read under the mutex; the guard is dropped at
\* the break or at the end of the loop body
schedule_finished ==
    /\ schedule_pc = "woken"
    /\ finish_lock' = "free"
    /\ schedule_pc' = IF finished THEN "exited" ELSE "check"
    /\ UNCHANGED <<current_token, refreshed, finished, notified, lost_notify, rx,
                   refresh_pc, stop_pc, manager, authorization>>
    /\ UNCHANGED <<client, bridge, library, utc_now>>

\* as refresh_recv, but a signal is taken while the refresh for the signal
\* before it is still in flight
refresh_recv_during_refresh ==
    /\ refresh_pc \in {"recv", "get_new_token"}
    /\ IF rx # <<>>
       THEN /\ rx' = Tail(rx)
            /\ refresh_pc' = "get_new_token"
       ELSE /\ manager = "dropped"
            /\ schedule_pc = "exited"
            /\ rx' = rx
            /\ refresh_pc' = "exited"
    /\ UNCHANGED <<current_token, refreshed, finished, finish_lock, notified, lost_notify, schedule_pc, stop_pc, manager, authorization>>
    /\ UNCHANGED <<client, bridge, library, utc_now>>

\* as refresh_recv, but the signals waiting behind the oldest one are taken
\* with it: one refresh for all of them
refresh_recv_coalesced ==
    /\ refresh_pc = "recv"
    /\ IF rx # <<>>
       THEN /\ rx' = <<>>
            /\ refresh_pc' = "get_new_token"
       ELSE /\ manager = "dropped"
            /\ schedule_pc = "exited"
            /\ rx' = rx
            /\ refresh_pc' = "exited"
    /\ UNCHANGED <<current_token, refreshed, finished, finish_lock, notified, lost_notify, schedule_pc, stop_pc, manager, authorization>>
    /\ UNCHANGED <<client, bridge, library, utc_now>>

\* line 148: rx.recv().await gives the oldest signal; it gives None once the
\* channel is empty and both senders are gone (the manager's, dropped with
\* it, and the scheduling thread's, dropped when the thread ends)
refresh_recv ==
    /\ refresh_pc = "recv"
    /\ IF rx # <<>>
       THEN /\ rx' = Tail(rx)
            /\ refresh_pc' = "get_new_token"
       ELSE /\ manager = "dropped"
            /\ schedule_pc = "exited"
            /\ rx' = rx
            /\ refresh_pc' = "exited"
    /\ UNCHANGED <<current_token, refreshed, finished, finish_lock, notified,
                   lost_notify, schedule_pc, stop_pc, manager, authorization>>
    /\ UNCHANGED <<client, bridge, library, utc_now>>

\* as get_new_token, but a refresh that comes back after the shutdown flag
\* was set is thrown away
get_new_token_unless_finished ==
    /\ refresh_pc = "get_new_token"
    /\ \/ /\ refreshed < MaxRefresh
          /\ ~finished
          /\ refreshed' = refreshed + 1
          /\ ArcSwap_store(AccessToken(refreshed + 1))
          /\ refresh_pc' = "recv"
       \/ /\ refresh_pc' = "sleep"
          /\ UNCHANGED <<current_token, refreshed>>
    /\ UNCHANGED <<finished, finish_lock, notified, lost_notify, rx, schedule_pc, stop_pc, manager, authorization>>
    /\ UNCHANGED <<client, bridge, library, utc_now>>

\* lines 151-159: get_new_token, then the store of the new token, or the
\* error logged
get_new_token ==
    /\ refresh_pc = "get_new_token"
    /\ \/ /\ refreshed < MaxRefresh
          /\ refreshed' = refreshed + 1
          /\ ArcSwap_store(AccessToken(refreshed + 1))
          /\ refresh_pc' = "recv"
       \/ /\ refresh_pc' = "sleep"
          /\ UNCHANGED <<current_token, refreshed>>
    /\ UNCHANGED <<finished, finish_lock, notified, lost_notify, rx, schedule_pc,
                   stop_pc, manager, authorization>>
    /\ UNCHANGED <<client, bridge, library, utc_now>>

\* as refresh_sleep, but the refresh that failed is attempted again for the
\* same signal
refresh_sleep_retry ==
    /\ refresh_pc = "sleep"
    /\ refresh_pc' = "get_new_token"
    /\ UNCHANGED <<current_token, refreshed, finished, finish_lock, notified, lost_notify, rx, schedule_pc, stop_pc, manager, authorization>>
    /\ UNCHANGED <<client, bridge, library, utc_now>>

\* lines 156-157: thread::sleep of a second, continue
refresh_sleep ==
    /\ refresh_pc = "sleep"
    /\ refresh_pc' = "recv"
    /\ UNCHANGED <<current_token, refreshed, finished, finish_lock, notified,
                   lost_notify, rx, schedule_pc, stop_pc, manager, authorization>>
    /\ UNCHANGED <<client, bridge, library, utc_now>>

\* as force_refresh_token, but the scheduling thread is woken as well
force_refresh_token_notifies ==
    /\ manager = "alive"
    /\ stop_pc = "none"
    /\ Len(rx) < MaxSignals
    /\ rx' = Append(rx, "force")
    /\ notified' = (notified \/ schedule_pc = "waiting")
    /\ lost_notify' = (lost_notify \/ schedule_pc # "waiting")
    /\ UNCHANGED <<current_token, refreshed, finished, finish_lock,
                   schedule_pc, refresh_pc, stop_pc, manager, authorization>>
    /\ UNCHANGED <<client, bridge, library, utc_now>>

\* force_refresh_token (lines 167-171)
force_refresh_token ==
    /\ manager = "alive"
    /\ stop_pc = "none"
    /\ Len(rx) < MaxSignals
    /\ rx' = Append(rx, "force")
    /\ UNCHANGED <<current_token, refreshed, finished, finish_lock, notified,
                   lost_notify, schedule_pc, refresh_pc, stop_pc, manager,
                   authorization>>
    /\ UNCHANGED <<client, bridge, library, utc_now>>

\* lines 195-198: stop_auth_refreshing takes the mutex.  It is entered from
\* TokenManager::stop_auth_refreshing(self) (lines 189-192), which consumes
\* the manager, and from drop (lines 203-207), which runs when the manager
\* goes away, consumed or not.
stop_auth_refreshing_lock(by) ==
    /\ stop_pc = "none"
    /\ manager = "alive" \/ (manager = "consumed" /\ by = "drop")
    /\ finish_lock = "free"
    /\ finish_lock' = "stop"
    /\ stop_pc' = by
    /\ UNCHANGED <<current_token, refreshed, finished, notified, lost_notify, rx,
                   schedule_pc, refresh_pc, manager, authorization>>
    /\ UNCHANGED <<client, bridge, library, utc_now>>

\* lines 199-201: the flag is set, notify_one wakes the scheduling thread if
\* it is waiting, the guard is dropped
stop_auth_refreshing_notify ==
    /\ stop_pc # "none"
    /\ finished' = TRUE
    /\ notified' = (notified \/ schedule_pc = "waiting")
    /\ lost_notify' = (lost_notify \/ schedule_pc # "waiting")
    /\ finish_lock' = "free"
    /\ manager' = IF stop_pc = "drop" THEN "dropped" ELSE "consumed"
    /\ stop_pc' = "none"
    /\ UNCHANGED <<current_token, refreshed, rx, schedule_pc, refresh_pc,
                   authorization>>
    /\ UNCHANGED <<client, bridge, library, utc_now>>

\* as auth_interceptor, but a token that is about to expire makes it ask for
\* a refresh
auth_interceptor_refreshing ==
    /\ authorization' = Bearer(ArcSwap_load.access_token)
    /\ rx' = IF Len(rx) < MaxSignals THEN Append(rx, "force") ELSE rx
    /\ UNCHANGED <<current_token, refreshed, finished, finish_lock, notified,
                   lost_notify, schedule_pc, refresh_pc, stop_pc, manager>>
    /\ UNCHANGED <<client, bridge, library, utc_now>>

\* auth_interceptor (lines 270-279): the closure run for each request
auth_interceptor ==
    /\ authorization' = Bearer(ArcSwap_load.access_token)
    /\ UNCHANGED <<current_token, refreshed, finished, finish_lock, notified,
                   lost_notify, rx, schedule_pc, refresh_pc, stop_pc, manager>>
    /\ UNCHANGED <<client, bridge, library, utc_now>>

refresh_token_schedule_jh ==
    \/ schedule_check
    \/ schedule_lock
    \/ schedule_wait
    \/ wait_timeout_returns
    \/ schedule_finished

refresh_token_loop_jh ==
    \/ refresh_recv
    \/ get_new_token
    \/ refresh_sleep

(* ============ the value bridge (firestore/value/fvalue/mod.rs) ============ *)
\* the variants of FValue (lines 17-27).  A double is named by its literal,
\* a SystemTime by its nanoseconds from the epoch, a HashMap is a function.
NullValue == [type |-> "NullValue", value |-> 0]
Str(v) == [type |-> "Str", value |-> v]
FInt(v) == [type |-> "Int", value |-> v]
Double(v) == [type |-> "Double", value |-> v]
Bool(v) == [type |-> "Bool", value |-> v]
Bytes(v) == [type |-> "Bytes", value |-> v]
Timestamp(v) == [type |-> "Timestamp", value |-> v]
Array(vs) == [type |-> "Array", value |-> vs]
Map(vs) == [type |-> "Map", value |-> vs]

\* the wire value (grpc_values.rs 7-68): Value { value_type: Some(..) }
Value(value_type, v) == [value_type |-> value_type, wire |-> v]
\* the conversion did not return: assert! failed
Panicked == [value_type |-> "panicked", wire |-> 0]

\* the nanoseconds of a second
NANOS_PER_SECOND == 1000000000

\* as SystemTime_into_Timestamp, but only the whole seconds are kept
SystemTime_into_Timestamp_seconds(t) ==
    [seconds |-> t \div NANOS_PER_SECOND, nanos |-> 0]

\* timestamp_value (grpc_values.rs 36-40): f.into(), a SystemTime as the
\* seconds from the epoch, rounded down, and the nanoseconds above them
SystemTime_into_Timestamp(t) ==
    [seconds |-> t \div NANOS_PER_SECOND, nanos |-> t % NANOS_PER_SECOND]

\* line 116: v.into(), the way back
Timestamp_into_SystemTime(ts) == ts.seconds * NANOS_PER_SECOND + ts.nanos

RECURSIVE to_grpc_value_with_depth(_, _)
\* lines 78-104
to_grpc_value_with_depth(v, depth) ==
    IF ~(depth <= MAX_DEPTH) THEN Panicked
    ELSE CASE v.type = "NullValue" -> Value("NullValue", 0)
           [] v.type = "Str" -> Value("StringValue", v.value)
           [] v.type = "Int" -> Value("IntegerValue", v.value)
           [] v.type = "Double" -> Value("DoubleValue", v.value)
           [] v.type = "Bool" -> Value("BooleanValue", v.value)
           [] v.type = "Bytes" -> Value("BytesValue", v.value)
           [] v.type = "Timestamp" ->
                Value("TimestampValue", SystemTime_into_Timestamp(v.value))
           [] v.type = "Array" ->
                LET vs == [i \in DOMAIN v.value |->
                             to_grpc_value_with_depth(v.value[i], depth + 1)]
                IN IF \E i \in DOMAIN vs : vs[i] = Panicked THEN Panicked
                   ELSE Value("ArrayValue", [values |-> vs])
           [] v.type = "Map" ->
                LET vs == [k \in DOMAIN v.value |->
                             to_grpc_value_with_depth(v.value[k], depth + 1)]
                IN IF \E k \in DOMAIN vs : vs[k] = Panicked THEN Panicked
                   ELSE Value("MapValue", [fields |-> vs])

\* lines 74-76
to_grpc_value(v) == to_grpc_value_with_depth(v, 0)

RECURSIVE from_grpc_value_with_depth(_, _)
\* lines 110-136, the supported value types
from_grpc_value_with_depth(v, depth) ==
    CASE v.value_type = "NullValue" -> NullValue
      [] v.value_type = "BooleanValue" -> Bool(v.wire)
      [] v.value_type = "IntegerValue" -> FInt(v.wire)
      [] v.value_type = "DoubleValue" -> Double(v.wire)
      [] v.value_type = "TimestampValue" ->
           Timestamp(Timestamp_into_SystemTime(v.wire))
      [] v.value_type = "StringValue" -> Str(v.wire)
      [] v.value_type = "BytesValue" -> Bytes(v.wire)
      [] v.value_type = "ArrayValue" ->
           Array([i \in DOMAIN v.wire.values |->
                    from_grpc_value_with_depth(v.wire.values[i], depth + 1)])
      [] v.value_type = "MapValue" ->
           Map([k \in DOMAIN v.wire.fields |->
                  from_grpc_value_with_depth(v.wire.fields[k], depth + 1)])

\* lines 106-108
from_grpc_value(v) == from_grpc_value_with_depth(v, 0)

RECURSIVE FValue_eq(_, _)
\* PartialEq for FValue (line 16, derived): the same variant and equal
\* contents; two doubles as f64 compares them, so NaN equals nothing and the
\* two zeros are equal
FValue_eq(a, b) ==
    /\ a.type = b.type
    /\ CASE a.type = "Double" ->
              /\ a.value # "NaN"
              /\ b.value # "NaN"
              /\ \/ a.value = b.value
                 \/ {a.value, b.value} = {"0.0", "-0.0"}
         [] a.type = "Array" ->
              /\ Len(a.value) = Len(b.value)
              /\ \A i \in DOMAIN a.value : FValue_eq(a.value[i], b.value[i])
         [] a.type = "Map" ->
              /\ DOMAIN a.value = DOMAIN b.value
              /\ \A k \in DOMAIN a.value : FValue_eq(a.value[k], b.value[k])
         [] OTHER -> a.value = b.value

RECURSIVE NestingDepth(_)
\* the containers nested inside one another on the longest path from the root
NestingDepth(v) ==
    IF v.type = "Array"
    THEN 1 + (IF v.value = <<>> THEN 0
              ELSE LET d == {NestingDepth(v.value[i]) : i \in DOMAIN v.value}
                   IN CHOOSE m \in d : \A n \in d : n <= m)
    ELSE IF v.type = "Map"
    THEN 1 + (IF DOMAIN v.value = {} THEN 0
              ELSE LET d == {NestingDepth(v.value[k]) : k \in DOMAIN v.value}
                   IN CHOOSE m \in d : \A n \in d : n <= m)
    ELSE 0

RECURSIVE ContainsNaN(_)
ContainsNaN(v) ==
    IF v.type = "Double" THEN v.value = "NaN"
    ELSE IF v.type \in {"Array", "Map"}
    THEN \E k \in DOMAIN v.value : ContainsNaN(v.value[k])
    ELSE FALSE

\* the values at the bottom of the values converted: one of every variant,
\* the containers empty
Innermost ==
    {NullValue, Str("asdf"), FInt(-1), Double("1.5"), Double("NaN"), Bool(TRUE),
     Bytes(<<1, 2>>), Timestamp(1500000000), Timestamp(-1),
     Array(<<>>), Map(<<>>)}

\* the containers a value is wrapped in: an array of it, a map of it, an
\* array of a string and it
Wraps == {"array", "map", "pair"}
Wrap(how, v) ==
    IF how = "array" THEN Array(<<v>>)
    ELSE IF how = "map" THEN Map([k \in {"k"} |-> v])
    ELSE Array(<<Str("s"), v>>)

RECURSIVE Nested(_, _, _)
\* v inside n containers
Nested(how, n, v) == IF n = 0 THEN v ELSE Wrap(how, Nested(how, n - 1, v))

\* the values converted: every innermost value inside 0 to MAX_DEPTH + 1
\* containers
FValues ==
    {Nested(how, n, v) : how \in Wraps, n \in 0..(MAX_DEPTH + 1), v \in Innermost}

NoConversion ==
    /\ fvalue = NullValue
    /\ grpc_value = Panicked
    /\ from_grpc = NullValue
    /\ value_pc = "none"

InitBridge ==
    /\ fvalue \in FValues
    /\ grpc_value = Panicked
    /\ from_grpc = NullValue
    /\ value_pc = "to_grpc_value"

\* v.to_grpc_value()
convert_to_grpc_value ==
    /\ value_pc = "to_grpc_value"
    /\ grpc_value' = to_grpc_value(fvalue)
    /\ value_pc' = IF grpc_value' = Panicked THEN "panicked" ELSE "from_grpc_value"
    /\ UNCHANGED <<fvalue, from_grpc>>
    /\ UNCHANGED <<client, tokenManager, library>>

\* FValue::from_grpc_value(..) of what to_grpc_value returned
convert_from_grpc_value ==
    /\ value_pc = "from_grpc_value"
    /\ from_grpc' = from_grpc_value(grpc_value)
    /\ value_pc' = "done"
    /\ UNCHANGED <<fvalue, grpc_value>>
    /\ UNCHANGED <<client, tokenManager, library>>

(* ---------------- the query builder (query.rs) ---------------- *)
\* field_filter: one field compared with a value
field_filter(field, ope, value) == [filter_type |-> "FieldFilter", field |-> field, op |-> ope, value |-> value]

\* unary_filter: one field tested alone
unary_filter(field, ope) == [filter_type |-> "UnaryFilter", field |-> field, op |-> ope]

\* a Filter that is a CompositeFilter
CompositeFilter(ope, fs) == [filter_type |-> "CompositeFilter", op |-> ope, filters |-> fs]

\* the filters a caller adds: those of test query_test, a unary one, and one
\* that the caller composed itself
Filters ==
    {field_filter("bbb", "Equal", "ssss"),
     field_filter("cccc", "ArrayContains", "hello"),
     unary_filter("ddd", "IsNull"),
     CompositeFilter("And", <<field_filter("bbb", "Equal", "ssss"), unary_filter("ddd", "IsNull")>>)}

\* as merge_filters, but a single filter is wrapped like several are
merge_filters_always_composite(fs) ==
    IF Len(fs) = 0 THEN <<>> ELSE <<CompositeFilter("And", fs)>>

\* merge_filters: Option<Filter> of a Vec<Filter>, None as <<>>
merge_filters(fs) ==
    CASE Len(fs) = 0 -> <<>>
      [] Len(fs) = 1 -> <<fs[Len(fs)]>>
      [] OTHER -> <<CompositeFilter("And", fs)>>

\* QueryBuilder::filter, on the builder QueryBuilder::collection made
QueryBuilder_filter(filter) ==
    /\ structured_query = <<>>
    /\ Len(filters) < MaxFilters
    /\ filters' = Append(filters, filter)
    /\ UNCHANGED <<structured_query, document_name, parsed_path, system_time, serialized, deserialized, helper_args, write_opes, native>>
    /\ UNCHANGED <<client, tokenManager, bridge>>

\* QueryBuilder::build, which is build_with_cursor(None, None): it takes
\* the builder
QueryBuilder_build ==
    /\ structured_query = <<>>
    /\ structured_query' = <<[where |-> merge_filters(filters)]>>
    /\ UNCHANGED <<filters, document_name, parsed_path, system_time, serialized, deserialized, helper_args, write_opes, native>>
    /\ UNCHANGED <<client, tokenManager, bridge>>

(* ---------------- document names (value/fdoc.rs) ---------------- *)
\* A name is the sequence of its slashes and of the runs of other characters
\* between them; a String made of pieces of a name is the sequence of those
\* pieces. DOCUMENT_ID_REGEX tells '/' from every other character and
\* knows the run "documents", so it matches between runs only.
\* what Firestore puts before the path of a document
NamePrefix == <<"projects", "/", "aaa", "/", "databases", "/", "(default)", "/", "documents">>

RECURSIVE NameTails(_)
\* what follows NamePrefix, n slashes and runs long: nothing, or a slash and
\* then slashes and runs with no two runs side by side
NameTails(n) ==
    IF n = 0 THEN {<<>>}
    ELSE LET shorter == {t \in NameTails(n - 1) : Len(t) = n - 1}
         IN  NameTails(n - 1) \cup
             UNION {{Append(t, x) : x \in IF t # <<>> /\ t[Len(t)] = "/" THEN {"coll_1", "doc_1", "documents", "/"} ELSE {"/"}} : t \in shorter}

DocumentNames == {NamePrefix \o t : t \in NameTails(MaxNameLen)}

\* the ways DOCUMENT_ID_REGEX matches path from its start: the slash at p
\* ends the first .*?, "/documents" is at q, group 1 ends before the slash
\* at j, group 2 before the slash at k, group 3 at the end of path
DOCUMENT_ID_REGEX(path) ==
    {m \in (DOMAIN path) \X (DOMAIN path) \X (DOMAIN path) \X (DOMAIN path) :
        /\ path[m[1]] = "/"
        /\ m[1] < m[2] /\ path[m[2]] = "/"
        /\ m[2] + 1 <= Len(path) /\ path[m[2] + 1] = "documents"
        /\ m[3] >= m[2] + 2 /\ path[m[3]] = "/"
        /\ m[3] + 1 <= Len(path) /\ path[m[3] + 1] # "/"
        /\ m[4] > m[3] + 1 /\ path[m[4]] = "/"
        /\ m[4] + 1 <= Len(path) /\ path[m[4] + 1] # "/"}

\* Regex::captures: the match a backtracking search finds first; .*? takes
\* as little as it can, .* as much as it can, earlier parts decide first
captures(path) ==
    LET all == DOCUMENT_ID_REGEX(path)
        Min(S) == CHOOSE x \in S : \A y \in S : x <= y
        Max(S) == CHOOSE x \in S : \A y \in S : x >= y
    IN  IF all = {} THEN <<>>
        ELSE LET p == Min({m[1] : m \in all})
                 q == Min({m[2] : m \in {n \in all : n[1] = p}})
                 j == Max({m[3] : m \in {n \in all : n[1] = p /\ n[2] = q}})
                 k == Min({m[4] : m \in {n \in all : n[1] = p /\ n[2] = q /\ n[3] = j}})
             IN  <<[group1 |-> SubSeq(path, q + 2, j - 1),
                    group2 |-> SubSeq(path, j + 1, k - 1),
                    group3 |-> SubSeq(path, k + 1, Len(path))]>>

\* parse_document_path and FDocumentPath::parse, which only names its parts
parse_document_path(path) ==
    IF captures(path) = <<>> THEN [type |-> "Err"]
    ELSE LET captured == captures(path)[1]
         IN  [type |-> "Ok",
              parent_path |-> IF captured.group1 = <<>> THEN <<>> ELSE <<captured.group1>>,
              collection_id |-> captured.group2,
              document_id |-> captured.group3]

\* FDocumentPath::into_string, and doc_path of the same three parts
into_string(fdoc) ==
    (IF fdoc.parent_path = <<>> THEN <<>> ELSE fdoc.parent_path[1])
        \o <<"/">> \o fdoc.collection_id \o <<"/">> \o fdoc.document_id

\* FDocumentPath::parse(&document_name)
FDocumentPath_parse ==
    /\ document_name # <<>>
    /\ parsed_path = <<>>
    /\ parsed_path' = <<parse_document_path(document_name)>>
    /\ UNCHANGED <<filters, structured_query, document_name, system_time, serialized, deserialized, helper_args, write_opes, native>>
    /\ UNCHANGED <<client, tokenManager, bridge>>

(* ---------------- timestamps through serde (fvalue/ser.rs, de.rs) ---------------- *)
\* the times bridged: the epoch and the second after it, with the
\* first nanoseconds, a quarter, a half and the last nanosecond of a second
SystemTimes ==
    {secs * NANOS_PER_SECOND + nanos : secs \in 0..1, nanos \in (0..MaxSubsecNanos) \cup {250000000, 500000000, 999999999}}

\* FValueSerializeMap::end (ser.rs 344-361): the struct named SystemTime
\* becomes the epoch plus Duration::from_secs of its secs_since_epoch, any
\* other struct a map. The u64 of serde went through serialize_u64's
\* `as i64` and comes back through `as u64`, the same number below 2^63.
FValueSerializeMap_end(struct_name, map_value) ==
    IF struct_name = "SystemTime"
    THEN Timestamp(map_value["secs_since_epoch"].value * NANOS_PER_SECOND)
    ELSE Map(map_value)

\* to_fvalue of a SystemTime at or after the epoch: serde serializes it as
\* the struct SystemTime of secs_since_epoch: u64 and nanos_since_epoch: u32,
\* which serialize_struct, serialize_field (serialize_u64, serialize_u32) and
\* end of FValueSerializer receive
to_fvalue(t) ==
    Ok(FValueSerializeMap_end("SystemTime",
        [k \in {"secs_since_epoch", "nanos_since_epoch"} |->
            IF k = "secs_since_epoch" THEN FInt(t \div NANOS_PER_SECOND)
            ELSE FInt(t % NANOS_PER_SECOND)]))

\* SeqFValueAccessForSystemTime::new (de.rs 187-193): the two numbers serde's
\* visitor is handed, or the panic of unwrap on a time before the epoch
SeqFValueAccessForSystemTime_new(time) ==
    IF time < 0 THEN <<>>
    ELSE <<time \div NANOS_PER_SECOND, time % NANOS_PER_SECOND>>

\* from_fvalue::<SystemTime>: deserialize_struct named SystemTime (de.rs
\* 97-125), serde's visitor making the epoch plus Duration::new(secs, nanos)
\* of the sequence
from_fvalue(v) ==
    IF v.type = "Timestamp"
    THEN LET sec_and_nano_sec == SeqFValueAccessForSystemTime_new(v.value)
         IN  IF sec_and_nano_sec = <<>> THEN Unwound
             ELSE Ok(sec_and_nano_sec[1] * NANOS_PER_SECOND + sec_and_nano_sec[2])
    ELSE Err([kind |-> "IncompatibleDeserializeType", info |-> "could not deserialze to system time", passed |-> 0])

\* to_fvalue(system_time)
convert_to_fvalue ==
    /\ system_time \in SystemTimes
    /\ serialized = <<>>
    /\ serialized' = <<to_fvalue(system_time)>>
    /\ UNCHANGED <<filters, structured_query, document_name, parsed_path, system_time, deserialized, helper_args, write_opes, native>>
    /\ UNCHANGED <<client, tokenManager, bridge>>

\* from_fvalue::<SystemTime>(v), of FValue::Timestamp(system_time) or of
\* what to_fvalue returned
convert_from_fvalue(v) ==
    /\ deserialized = <<>>
    /\ deserialized' = <<[of |-> v, to |-> from_fvalue(v)]>>
    /\ UNCHANGED <<filters, structured_query, document_name, parsed_path, system_time, serialized, helper_args, write_opes, native>>
    /\ UNCHANGED <<client, tokenManager, bridge>>

(* ---------------- the write-operation helpers (firestore/helper.rs) ---------------- *)
\* the arguments the helpers are called with: no parent, a parent written as
\* FDocumentPath::parse returns it (from the slash after "documents") and one
\* written without that slash; a collection id and a document id.  A String
\* is the sequence of its slashes and runs, as for the document names.  The
\* build is with or without debug_assertions.
HelperArgs ==
    [debug_assertions : BOOLEAN,
     parent : {<<>>, <<<<"/", "coll_1", "/", "doc_1">>>>, <<<<"coll_1", "/", "doc_1">>>>},
     collection_id : {<<"coll_2">>, <<"documents">>},
     doc_id : {<<"doc_2">>}]

Helpers == {"new_write_ope_create", "new_write_ope_update", "new_write_ope_upsert", "new_write_ope_delete"}

\* doc_path (fdoc.rs 77-84): format!("{}/{}/{}", parent.unwrap_or(""), collection_id, doc_id)
doc_path(parent, collection_id, doc_id) ==
    (IF parent = <<>> THEN <<>> ELSE parent[1]) \o <<"/">> \o collection_id \o <<"/">> \o doc_id

\* validate_partial_document_path (request.rs 20-33): true, or a panic
validate_partial_document_path(document_path) ==
    /\ document_path # <<>>
    /\ document_path[1] = "/"
    /\ ~\E i \in 1..(Len(document_path) - 1) : document_path[i] = "/" /\ document_path[i + 1] = "documents"

\* a helper returned the operation, or a panic unwound through it
Built(ope) == [panicked |-> FALSE, ope |-> <<ope>>]
HelperPanicked == [panicked |-> TRUE, ope |-> <<>>]

\* debug_assert!(validate_partial_document_path(&document_path)) at the head
\* of new_upsert, new_update and new_delete (request.rs 213, 227, 237), then
\* the operation
new_checked(debug_assertions, kind, document_path) ==
    IF debug_assertions /\ ~validate_partial_document_path(document_path)
    THEN HelperPanicked
    ELSE Built(DocumentWriteOperation(kind, document_path))

\* DocumentWriteOperation::new_create (request.rs 192-210): the path is
\* format!("{}/{}/{}", parent_path.map(|path| format!("/{}", path)).unwrap_or(""), collection_id, doc_id)
new_create(parent_path, collection_id, doc_id) ==
    DocumentWriteOperation("Create", (IF parent_path = <<>> THEN <<>> ELSE <<"/">> \o parent_path[1]) \o <<"/">> \o collection_id \o <<"/">> \o doc_id)

\* new_write_ope_create (helper.rs 7-17)
new_write_ope_create(parent, collection_id, doc_id) ==
    Built(new_create(parent, collection_id, doc_id))

\* new_write_ope_update (helper.rs 19-34), called without a field mask
new_write_ope_update(debug_assertions, parent, collection_id, doc_id) ==
    new_checked(debug_assertions, "Update", doc_path(parent, collection_id, doc_id))

\* new_write_ope_upsert (helper.rs 36-46)
new_write_ope_upsert(debug_assertions, parent, collection_id, doc_id) ==
    new_checked(debug_assertions, "Upsert", doc_path(parent, collection_id, doc_id))

\* new_write_ope_delete (helper.rs 48-54)
new_write_ope_delete(debug_assertions, parent, collection_id, doc_id) ==
    new_checked(debug_assertions, "Delete", doc_path(parent, collection_id, doc_id))

\* one of the helpers is called with helper_args
call_helper(helper) ==
    /\ helper_args # <<>>
    /\ write_opes[helper] = <<>>
    /\ LET a == helper_args[1]
           built == CASE helper = "new_write_ope_create" -> new_write_ope_create(a.parent, a.collection_id, a.doc_id)
                      [] helper = "new_write_ope_update" -> new_write_ope_update(a.debug_assertions, a.parent, a.collection_id, a.doc_id)
                      [] helper = "new_write_ope_upsert" -> new_write_ope_upsert(a.debug_assertions, a.parent, a.collection_id, a.doc_id)
                      [] helper = "new_write_ope_delete" -> new_write_ope_delete(a.debug_assertions, a.parent, a.collection_id, a.doc_id)
       IN write_opes' = [write_opes EXCEPT ![helper] = <<built>>]
    /\ UNCHANGED <<filters, structured_query, document_name, parsed_path, system_time, serialized, deserialized, helper_args, native>>
    /\ UNCHANGED <<client, tokenManager, bridge>>

(* ---------------- native integers through serde (fvalue/ser.rs 44-74) ---------------- *)
\* A number of up to 64 bits is a sign and a magnitude of four 16-bit digits,
\* the most significant first; the 64 bits of a register are four such
\* digits.
\* the digits the numbers tried are made of: the ends and the middle of the
\* 8-bit and of the 16-bit range
Digits == {0, 1, 127, 128, 255, 32767, 32768, 65535}
Magnitudes == [1..4 -> Digits]

\* 2^k, for k below 64
Pow2(k) == [i \in 1..4 |-> IF i = 4 - (k \div 16) THEN 2 ^ (k % 16) ELSE 0]

\* mag < 2^k, for k up to 64
BelowPow2(mag, k) ==
    k = 64 \/ /\ \A i \in 1..(3 - (k \div 16)) : mag[i] = 0
              /\ mag[4 - (k \div 16)] < 2 ^ (k % 16)

\* the integer types FValueSerializer takes, and the bits of each
IntegerTypes == {"i8", "i16", "i32", "i64", "u8", "u16", "u32", "u64"}
Bits(ty) == CASE ty \in {"i8", "u8"} -> 8 [] ty \in {"i16", "u16"} -> 16 [] ty \in {"i32", "u32"} -> 32 [] ty \in {"i64", "u64"} -> 64
Signed(ty) == ty \in {"i8", "i16", "i32", "i64"}

\* the values of a type: 0 .. 2^w - 1 unsigned, -2^(w-1) .. 2^(w-1) - 1 signed
InRange(ty, v) ==
    IF Signed(ty)
    THEN IF v.neg THEN v.mag # <<0, 0, 0, 0>> /\ (BelowPow2(v.mag, Bits(ty) - 1) \/ v.mag = Pow2(Bits(ty) - 1))
         ELSE BelowPow2(v.mag, Bits(ty) - 1)
    ELSE ~v.neg /\ BelowPow2(v.mag, Bits(ty))

NativeIntegers ==
    {n \in [ty : IntegerTypes, value : [neg : BOOLEAN, mag : Magnitudes]] : InRange(n.ty, n.value)}

\* the sum of two magnitudes, digit by digit from the last, and the carry out
\* of the first
AddMag(a, b) ==
    LET s4 == a[4] + b[4]
        s3 == a[3] + b[3] + s4 \div 65536
        s2 == a[2] + b[2] + s3 \div 65536
        s1 == a[1] + b[1] + s2 \div 65536
    IN  [carry |-> s1 \div 65536, sum |-> <<s1 % 65536, s2 % 65536, s3 % 65536, s4 % 65536>>]

\* two's complement of 64 bits: every bit flipped, one added, the carry lost
Negate(bits) == AddMag([i \in 1..4 |-> 65535 - bits[i]], <<0, 0, 0, 1>>).sum

\* `v as i64`: the value in a 64-bit register, sign-extended when v is
\* negative, read as a signed number: the top bit set means negative
as_i64(v) ==
    LET bits == IF v.neg THEN Negate(v.mag) ELSE v.mag
    IN  IF bits[1] >= 32768 THEN [neg |-> TRUE, mag |-> Negate(bits)]
        ELSE [neg |-> FALSE, mag |-> bits]

\* lines 44-74
serialize_i8(v) == Ok(FInt(as_i64(v)))
serialize_i16(v) == Ok(FInt(as_i64(v)))
serialize_i32(v) == Ok(FInt(as_i64(v)))
serialize_i64(v) == Ok(FInt(v))
serialize_u8(v) == Ok(FInt(as_i64(v)))
serialize_u16(v) == Ok(FInt(as_i64(v)))
serialize_u32(v) == Ok(FInt(as_i64(v)))

\* as serialize_u64, but a number that does not fit i64 is an error
serialize_u64_checked(v) ==
    IF v.mag[1] >= 32768
    THEN Err([kind |-> "SerdeError", info |-> "out of range integral type conversion attempted", passed |-> 0])
    ELSE Ok(FInt(v))

serialize_u64(v) == Ok(FInt(as_i64(v)))

\* to_fvalue(native): serde hands the integer to the serialize_* of its type
convert_native_to_fvalue ==
    /\ native # <<>>
    /\ serialized = <<>>
    /\ LET v == native[1].value
       IN serialized' = <<CASE native[1].ty = "i8" -> serialize_i8(v)
                            [] native[1].ty = "i16" -> serialize_i16(v)
                            [] native[1].ty = "i32" -> serialize_i32(v)
                            [] native[1].ty = "i64" -> serialize_i64(v)
                            [] native[1].ty = "u8" -> serialize_u8(v)
                            [] native[1].ty = "u16" -> serialize_u16(v)
                            [] native[1].ty = "u32" -> serialize_u32(v)
                            [] native[1].ty = "u64" -> serialize_u64(v)>>
    /\ UNCHANGED <<filters, structured_query, document_name, parsed_path, system_time, deserialized, helper_args, write_opes, native>>
    /\ UNCHANGED <<client, tokenManager, bridge>>

\* no query built, no path parsed, no timestamp bridged
NoLibraryCall ==
    /\ filters = <<>>
    /\ structured_query = <<>>
    /\ document_name = <<>>
    /\ parsed_path = <<>>
    /\ system_time = 0
    /\ serialized = <<>>
    /\ deserialized = <<>>
    /\ helper_args = <<>>
    /\ write_opes = <<>>
    /\ native = <<>>

(* ======================= the specifications ======================= *)
Init == InitClient /\ TokenManager_start /\ NoConversion /\ NoLibraryCall

\* the transactional engine, the single-call operations it shares the
\* collaborator with, and their caller
Next ==
    \/ in_transaction
    \/ \E path \in DocPathSet : get_document(path)
    \/ \E path \in DocPathSet : create_document(path)
    \/ \E path \in DocPathSet : delete_document(path)
    \/ \E c \in Ctxs, n \in BatchSizes : batch_write(OpesOf(c, n))
    \/ caller_continues

Spec == Init /\ [][Next]_vars

\* the operations that loop: the chunked ones, the streamed ones and the
\* listings
NextLoops ==
    \/ \E c \in Ctxs, n \in LargeBatchSizes : large_batch_write(OpesOf(c, n))
    \/ large_batch_write_chunk
    \/ \E paths \in DocumentPathLists : batch_get_documents(paths)
    \/ batch_get_documents_chunk
    \/ batch_get_documents_message
    \/ run_query
    \/ run_query_message
    \/ \E rpc \in Listings : list_all(rpc)
    \/ fetch_through_all_tokens

\* the operations outside a transaction: the single-call ones and the
\* looping ones
NextOps ==
    \/ \E path \in DocPathSet : get_document(path)
    \/ \E path \in DocPathSet : create_document(path)
    \/ \E path \in DocPathSet : delete_document(path)
    \/ \E mask \in UpdateFieldMasks : update_document(DocPaths[1], mask)
    \/ \E c \in Ctxs, n \in BatchSizes : batch_write(OpesOf(c, n))
    \/ NextLoops
    \/ caller_continues

SpecOps == Init /\ [][NextOps]_vars

\* every operation of the client, update_document as test crud_object calls
\* it (without a mask)
NextClient ==
    \/ Next
    \/ update_document(DocPaths[1], <<>>)
    \/ NextLoops

SpecClient == Init /\ [][NextClient]_vars

\* the token manager: its two loops, its callers, the requests being built
NextAuth ==
    \/ refresh_token_schedule_jh
    \/ refresh_token_loop_jh
    \/ force_refresh_token
    \/ \E by \in {"stop_auth_refreshing", "drop"} : stop_auth_refreshing_lock(by)
    \/ stop_auth_refreshing_notify
    \/ auth_interceptor

SpecAuth == Init /\ [][NextAuth]_vars

\* the scheduling thread is an operating-system thread and the caller of
\* stop_auth_refreshing runs straight through it: each takes its next step
\* when it can
SpecAuthFair ==
    /\ SpecAuth
    /\ WF_vars(schedule_check)
    /\ WF_vars(schedule_lock)
    /\ WF_vars(schedule_wait)
    /\ WF_vars(wait_timeout_returns)
    /\ WF_vars(schedule_finished)
    /\ WF_vars(stop_auth_refreshing_notify)

\* lines 113-123 with need_refresh true: Utc::now() has reached the
\* expiration less the lead time
schedule_check_need_refresh == schedule_check /\ rx' # rx

\* lines 151-153: the authenticator returned a token
get_new_token_Ok == get_new_token /\ refreshed' # refreshed

\* both loops take their next step when they can (a thread, and a task of a
\* running runtime); the clock goes on while a token's expiration stays, so a
\* scheduling thread that keeps checking finds the token within the lead
\* time again and again; and the authenticator does not fail for ever
SpecAuthRefresh ==
    /\ SpecAuthFair
    /\ WF_vars(refresh_recv)
    /\ WF_vars(get_new_token)
    /\ WF_vars(refresh_sleep)
    /\ SF_vars(schedule_check_need_refresh)
    /\ SF_vars(get_new_token_Ok)

\* the token manager started with a token that expires or with one that has
\* no expiration (AccessToken::expiration_time() is an Option)
InitSchedule ==
    /\ InitClient /\ NoConversion /\ NoLibraryCall
    /\ current_token \in {AccessToken(0), [access_token |-> 0, expires_at |-> <<>>]}
    /\ refreshed = 0
    /\ finished = FALSE
    /\ finish_lock = "free"
    /\ notified = FALSE
    /\ lost_notify = FALSE
    /\ rx = <<>>
    /\ schedule_pc = "check"
    /\ refresh_pc = "recv"
    /\ stop_pc = "none"
    /\ manager = "alive"
    /\ authorization = NoHeader
    /\ utc_now = <<>>

SpecSchedule == InitSchedule /\ [][NextAuth]_vars

\* the round trip of a value through the wire form
InitValue == InitClient /\ TokenManager_start /\ InitBridge /\ NoLibraryCall

NextValue ==
    \/ convert_to_grpc_value
    \/ convert_from_grpc_value

SpecValue == InitValue /\ [][NextValue]_vars

\* a query built from QueryBuilder::collection on
NextQuery ==
    \/ \E filter \in Filters : QueryBuilder_filter(filter)
    \/ QueryBuilder_build

SpecQuery == Init /\ [][NextQuery]_vars

\* a document name parsed
InitPath ==
    /\ InitClient /\ TokenManager_start /\ NoConversion
    /\ filters = <<>>
    /\ structured_query = <<>>
    /\ document_name \in DocumentNames
    /\ parsed_path = <<>>
    /\ system_time = 0
    /\ serialized = <<>>
    /\ deserialized = <<>>
    /\ helper_args = <<>>
    /\ write_opes = <<>>
    /\ native = <<>>

SpecPath == InitPath /\ [][FDocumentPath_parse]_vars

\* the helpers called on one (parent, collection, id), in any order
InitHelpers ==
    /\ InitClient /\ TokenManager_start /\ NoConversion
    /\ filters = <<>>
    /\ structured_query = <<>>
    /\ document_name = <<>>
    /\ parsed_path = <<>>
    /\ system_time = 0
    /\ serialized = <<>>
    /\ deserialized = <<>>
    /\ helper_args \in {<<a>> : a \in HelperArgs}
    /\ write_opes = [h \in Helpers |-> <<>>]
    /\ native = <<>>

NextHelpers == \E helper \in Helpers : call_helper(helper)

SpecHelpers == InitHelpers /\ [][NextHelpers]_vars

\* a native integer serialized
InitNative ==
    /\ InitClient /\ TokenManager_start /\ NoConversion
    /\ filters = <<>>
    /\ structured_query = <<>>
    /\ document_name = <<>>
    /\ parsed_path = <<>>
    /\ system_time = 0
    /\ serialized = <<>>
    /\ deserialized = <<>>
    /\ helper_args = <<>>
    /\ write_opes = <<>>
    /\ native \in {<<n>> : n \in NativeIntegers}

SpecNative == InitNative /\ [][convert_native_to_fvalue]_vars

\* a SystemTime bridged either way
InitSerde ==
    /\ InitClient /\ TokenManager_start /\ NoConversion
    /\ filters = <<>>
    /\ structured_query = <<>>
    /\ document_name = <<>>
    /\ parsed_path = <<>>
    /\ system_time \in SystemTimes
    /\ serialized = <<>>
    /\ deserialized = <<>>
    /\ helper_args = <<>>
    /\ write_opes = <<>>
    /\ native = <<>>

NextSerde ==
    \/ convert_to_fvalue
    \/ convert_from_fvalue(Timestamp(system_time))
    \/ \E i \in DOMAIN serialized : convert_from_fvalue(serialized[i].val)

SpecSerde == InitSerde /\ [][NextSerde]_vars

(* ======================= the claims ======================= *)
Returned(o) == pc = "returned" /\ op = o

\* the calls of one procedure issued by the engine itself (not by the unit of
\* work through the client it was handed)
ClientCalls(rpc) == {i \in DOMAIN calls : calls[i].rpc = rpc /\ calls[i].by = "client"}

\* in_transaction has returned and its begin call had succeeded
TxReturned == Returned("in_transaction") /\ tx_ope.transaction # 0

OneCallWithToken(rpc) ==
    /\ Cardinality(ClientCalls(rpc)) = 1
    /\ \A i \in ClientCalls(rpc) : calls[i].transaction = tx_ope.transaction

\* C1: when begin succeeds, the unit of work returns Ok(v) with at most the
\* checked number of operations, exactly one commit call is issued, with the
\* token begin returned, no rollback call is issued, and if that commit call
\* succeeds the caller receives Ok(v).
C1_CommitOnSuccess ==
    (TxReturned /\ maybe_panic_in_tx.tag = "Ok"
        /\ Len(tx_ope.operations) <= MAX_BATCH_WRTIE_SIZE)
    => /\ OneCallWithToken("commit")
       /\ ClientCalls("rollback") = {}
       /\ (\A i \in ClientCalls("commit") : calls[i].status = "Ok")
            => result = Ok(maybe_panic_in_tx.val)

\* C1 witness: the unit of work of test write_in_transaction (a direct create,
\* one delete pushed, Ok(100)) has committed and the caller has 100.
C1_Witness ==
    /\ TxReturned /\ ctx = "Delete"
    /\ Len(tx_ope.operations) = 1
    /\ \E i \in DOMAIN calls : calls[i].by = "unit_of_work"
    /\ \E i \in ClientCalls("commit") : calls[i].status = "Ok"
    /\ result = Ok(<<100>>)

\* C2 as stated: whenever the unit of work returns an error e, exactly one
\* rollback call with the begin token is issued, no commit call is issued,
\* and the caller receives e.
C2_Original ==
    (TxReturned /\ maybe_panic_in_tx.tag = "Err")
    => /\ OneCallWithToken("rollback")
       /\ ClientCalls("commit") = {}
       /\ result = Err(maybe_panic_in_tx.err)

\* C2 amended: whenever the unit of work returns an error e, exactly one
\* rollback call with the begin token is issued, no commit call is issued and
\* the transaction is never committed; the caller receives e if the rollback
\* call succeeds and the rollback call's own error if it fails.
C2_RollbackOnError ==
    (TxReturned /\ maybe_panic_in_tx.tag = "Err")
    => /\ OneCallWithToken("rollback")
       /\ ClientCalls("commit") = {}
       /\ serverTx[tx_ope.transaction] # "committed"
       /\ \A i \in ClientCalls("rollback") :
            result = IF calls[i].status = "Ok" THEN Err(maybe_panic_in_tx.err)
                     ELSE Err(GrpcErrorStatus(calls[i].status))

\* C2 witness: the unit of work of test error_in_transaction (one create
\* pushed, then an error) was rolled back and the caller has that error.
C2_Witness ==
    /\ TxReturned /\ ctx = "Create"
    /\ Len(tx_ope.operations) = 1
    /\ maybe_panic_in_tx.tag = "Err"
    /\ \E i \in ClientCalls("rollback") : calls[i].status = "Ok"
    /\ result = Err(UserErr("something went wrong"))
    /\ serverDocs = {}

\* C3 as stated: whenever the unit of work panics, the panic does not leave
\* in_transaction, exactly one rollback call with the begin token is issued,
\* no commit call is issued, and the caller receives the error wrapping the
\* panic.
C3_Original ==
    (Returned("in_transaction")
        /\ (maybe_panic_in_tx.tag = "Panic" \/ result.tag = "Unwound"))
    => /\ result.tag # "Unwound"
       /\ OneCallWithToken("rollback")
       /\ ClientCalls("commit") = {}
       /\ result = Err(PanicErr)

\* C4 as stated: when the unit of work succeeds with n operations, the commit
\* call is issued for every n <= 500 and a validation error is returned
\* without a commit call for every n > 500.
C4_Original ==
    (TxReturned /\ maybe_panic_in_tx.tag = "Ok")
    => IF Len(tx_ope.operations) <= MAX_WRITE_OPE_IN_TX
       THEN ClientCalls("commit") # {}
       ELSE ClientCalls("commit") = {} /\ result.err.kind = "Validation"

\* C5: when the unit of work succeeds with more operations than the check
\* before commit allows, in_transaction returns an error and has issued
\* neither a commit nor a rollback call: the token is left as begin made it.
C5_OverLimitAbandoned ==
    (TxReturned /\ maybe_panic_in_tx.tag = "Ok"
        /\ Len(tx_ope.operations) > MAX_BATCH_WRTIE_SIZE)
    => /\ result.tag = "Err"
       /\ ClientCalls("commit") = {}
       /\ ClientCalls("rollback") = {}
       /\ serverTx[tx_ope.transaction] = "open"

\* C5 witness: a unit of work that pushed 501 operations and returned Ok got
\* the validation error after the begin call alone.
C5_Witness ==
    /\ TxReturned /\ maybe_panic_in_tx.tag = "Ok"
    /\ Len(tx_ope.operations) = MAX_WRITE_OPE_IN_TX + 1
    /\ result = Err(ValidationErr(MAX_WRITE_OPE_IN_TX + 1))
    /\ Len(calls) = 1

\* C6: a push on the handle issues no network call and changes nothing on the
\* server, and the pushed operations reach the server only in the commit
\* call: when in_transaction returns without having issued a commit call, no
\* call it issued carried a write and the transaction is not committed.
C6_NoWriteWithoutCommit ==
    /\ [][(pc = "polling" /\ tx_ope'.operations # tx_ope.operations)
            => (calls' = calls /\ serverDocs' = serverDocs /\ serverTx' = serverTx)]_vars
    /\ [](\A i \in DOMAIN calls : calls[i].writes # <<>> =>
            (calls[i].rpc \in {"commit", "batch_write"} /\ pc # "polling"))
    /\ []((TxReturned /\ ClientCalls("commit") = {})
            => /\ \A i \in DOMAIN calls : calls[i].writes = <<>>
               /\ serverTx[tx_ope.transaction] # "committed")

\* C6 witness: a unit of work that pushed operations was rolled back: no
\* commit call was issued and no call carried a write.
C6_Witness ==
    /\ TxReturned
    /\ Len(tx_ope.operations) > 1
    /\ ClientCalls("commit") = {}
    /\ ClientCalls("rollback") # {}
    /\ \A i \in DOMAIN calls : calls[i].writes = <<>>

\* C7: when the unit of work fails (error or panic) and the rollback call
\* fails, the caller receives the rollback call's error and exactly one
\* rollback call was issued.
C7_RollbackFailurePropagated ==
    (TxReturned /\ maybe_panic_in_tx.tag \in {"Err", "Panic"}
        /\ \E i \in ClientCalls("rollback") : calls[i].status # "Ok")
    => /\ Cardinality(ClientCalls("rollback")) = 1
       /\ \A i \in ClientCalls("rollback") :
            result = Err(GrpcErrorStatus(calls[i].status))

\* C7 witness: the unit of work panicked, the rollback call ended Unavailable
\* and the caller has that status as its error.
C7_Witness ==
    /\ TxReturned /\ maybe_panic_in_tx.tag = "Panic"
    /\ \E i \in ClientCalls("rollback") : calls[i].status = "Unavailable"
    /\ result = Err(GrpcErrorStatus("Unavailable"))

\* C8: the unit of work is never invoked twice by one in_transaction call; it
\* has been invoked exactly once when in_transaction returns after a
\* successful begin, and not at all when begin failed.
C8_InvokedOnce ==
    /\ invoked <= 1
    /\ TxReturned => invoked = 1
    /\ (Returned("in_transaction") /\ tx_ope.transaction = 0) => invoked = 0

\* C8 witness: the commit call failed and in_transaction returned with the
\* unit of work invoked once.
C8_Witness ==
    /\ TxReturned /\ invoked = 1
    /\ \E i \in ClientCalls("commit") : calls[i].status # "Ok"
    /\ result.tag = "Err"

\* C9: get_document returns Ok(None) when the call ends NotFound,
\* Ok(Some(document)) when it ends Ok and an error for any other status; a
\* read of a document that does not exist (for one, after its deletion) never
\* returns a document and fails only with a status other than NotFound.
C9_GetDocument ==
    Returned("get_document")
    => /\ Len(calls) = 1
       /\ LET st == calls[1].status
              path == calls[1].name[4]
          IN /\ st = "NotFound" => result = Ok(<<>>)
             /\ st = "Ok" => /\ result.tag = "Ok"
                             /\ Len(result.val) = 1
                             /\ result.val[1].name[4] = path
             /\ st \notin {"Ok", "NotFound"} => result = Err(GrpcErrorStatus(st))
             /\ path \notin serverDocs =>
                  (result = Ok(<<>>) \/ (result.tag = "Err" /\ st # "NotFound"))

\* C9 witness: a read of a document that does not exist ended NotFound and
\* the caller has Ok(None).
C9_Witness ==
    /\ Returned("get_document")
    /\ calls[1].status = "NotFound"
    /\ calls[1].name[4] \notin serverDocs
    /\ result = Ok(<<>>)

\* C10: batch_write given more than 450 operations returns a validation error
\* and issues no call; given 450 or fewer it issues exactly one batch-write
\* call, carrying the writes of all the operations.
C10_BatchWriteLimit ==
    Returned("batch_write")
    => IF Len(operations) > MAX_BATCH_WRTIE_SIZE
       THEN calls = <<>> /\ result = Err(ValidationErr(Len(operations)))
       ELSE /\ Len(calls) = 1
            /\ calls[1].rpc = "batch_write"
            /\ Len(calls[1].writes) = Len(operations)

\* C10 witness: batch_write given 451 operations was refused without a call.
C10_Witness ==
    /\ Returned("batch_write")
    /\ Len(operations) = MAX_BATCH_WRTIE_SIZE + 1
    /\ calls = <<>>
    /\ result.err.kind = "Validation"

\* the sequences of a sequence joined in order
RECURSIVE Concat(_)
Concat(seqs) == IF seqs = <<>> THEN <<>> ELSE Head(seqs) \o Concat(Tail(seqs))

\* C11: large_batch_write that returned Ok issued ceil(n / 450) batch-write
\* calls for its n operations, every one of at most 450 writes, the calls'
\* writes taken in call order being the writes of the operations in list order
\* (the chunks cover the list, consecutively), and what it returned is the
\* calls' write results joined in call order.
C11_LargeBatchWrite ==
    (Returned("large_batch_write") /\ result.tag = "Ok")
    => /\ Len(calls) = (Len(operations) + MAX_BATCH_WRTIE_SIZE - 1)
                         \div MAX_BATCH_WRTIE_SIZE
       /\ \A i \in DOMAIN calls :
            /\ calls[i].rpc = "batch_write"
            /\ calls[i].status = "Ok"
            /\ Len(calls[i].writes) <= MAX_BATCH_WRTIE_SIZE
       /\ Concat([i \in DOMAIN calls |-> calls[i].writes])
            = into_writes(ProjectId, operations)
       /\ result.val
            = Concat([i \in DOMAIN calls |-> WriteResults(calls[i].writes, i)])

\* C11 witness: 900 operations went out as two calls of 450 writes each and
\* the 900 write results came back.
C11_Witness ==
    /\ Returned("large_batch_write")
    /\ Len(operations) = 2 * MAX_BATCH_WRTIE_SIZE
    /\ Len(calls) = 2
    /\ Len(calls[1].writes) = MAX_BATCH_WRTIE_SIZE
    /\ Len(calls[2].writes) = MAX_BATCH_WRTIE_SIZE
    /\ result.tag = "Ok"
    /\ Len(result.val) = 2 * MAX_BATCH_WRTIE_SIZE

\* the items of the response streams of an operation's calls, in call order
ResponseItems == Concat([i \in DOMAIN calls |-> calls[i].response])

\* C12: batch_get_documents that returned Ok has handed to the callback the
\* found documents of its response streams, each once and in stream order,
\* and returns the missing markers of the streams, in stream order; callback
\* invocations and returned paths together are as many as the response items,
\* and with nothing missing the returned list is empty.
C12_BatchGetDocuments ==
    (Returned("batch_get_documents") /\ result.tag = "Ok")
    => LET found == SelectSeq(ResponseItems, LAMBDA item : item.result = "Found")
           missing == SelectSeq(ResponseItems, LAMBDA item : item.result = "Missing")
       IN /\ with_each_doc = [i \in DOMAIN found |-> found[i].found[1]]
          /\ result.val = [i \in DOMAIN missing |-> missing[i].missing[1]]
          /\ Len(with_each_doc) + Len(result.val) = Len(ResponseItems)
          /\ missing = <<>> => result.val = <<>>

\* C12 witness: three paths were asked for, one of them of no document; the
\* callback was invoked twice and that one path came back.
C12_Witness ==
    /\ Returned("batch_get_documents")
    /\ result.tag = "Ok"
    /\ Len(calls) = 1
    /\ Len(calls[1].request.documents) = 3
    /\ Len(with_each_doc) = 2
    /\ result.val = <<fmt_document_path(ProjectId, NotExistsPath)>>

\* C13: an operation of the client that has returned while one of the calls
\* it made itself ended with a status other than OK has returned an error;
\* the one exception is get_document, which answers NotFound with Ok(None).
C13_FailedCallIsAnError ==
    pc = "returned"
    => \A i \in DOMAIN calls :
         (calls[i].by = "client" /\ calls[i].status # "Ok")
         => \/ result.tag = "Err"
            \/ /\ op = "get_document"
               /\ calls[i].status = "NotFound"
               /\ result = Ok(<<>>)

\* C13 witness: the second chunk call of large_batch_write failed after the
\* first had succeeded, and large_batch_write returned an error.
C13_Witness ==
    /\ Returned("large_batch_write")
    /\ Len(calls) = 2
    /\ calls[1].status = "Ok"
    /\ calls[2].status # "Ok"
    /\ result.tag = "Err"

\* the pages an operation's chunk fetches were answered with, in fetch order
FetchedPages == [i \in DOMAIN calls |-> calls[i].response[1]]

\* C14: a listing that returned Ok returns the items of the pages it fetched,
\* joined in fetch order, and the pages it fetched are those up to and
\* including the first one with an empty next-token.
C14_Pagination ==
    (pc = "returned" /\ op \in Listings /\ result.tag = "Ok")
    => /\ calls # <<>>
       /\ \A i \in DOMAIN calls : calls[i].status = "Ok"
       /\ result.val = Concat([i \in DOMAIN calls |-> FetchedPages[i].items])
       /\ FetchedPages[Len(calls)].next_page_token = ""
       /\ \A i \in 1..(Len(calls) - 1) : FetchedPages[i].next_page_token # ""

\* C14 witness: pages (["a","b"], "tok1") and (["c"], "") were fetched and
\* ["a","b","c"] was returned.
C14_Witness ==
    /\ pc = "returned"
    /\ op \in Listings
    /\ Len(calls) = 2
    /\ \A i \in DOMAIN calls : calls[i].status = "Ok"
    /\ FetchedPages = <<[items |-> <<"a", "b">>, next_page_token |-> "tok1"],
                        [items |-> <<"c">>, next_page_token |-> ""]>>
    /\ result = Ok(<<"a", "b", "c">>)

\* C15 as stated: for every value of nesting depth at most 20 the conversion
\* to the wire form returns and the value made back from it equals (==) the
\* value converted.
C15_Original ==
    NestingDepth(fvalue) <= MAX_DEPTH
    => /\ value_pc # "panicked"
       /\ value_pc = "done" => FValue_eq(from_grpc, fvalue)

\* C15 amended: for every value of nesting depth at most 20 the conversion to
\* the wire form returns and the value made back from it is the value
\* converted, variant by variant and content by content; it equals (==) the
\* value converted exactly when that value holds no NaN double.
C15_RoundTrip ==
    NestingDepth(fvalue) <= MAX_DEPTH
    => /\ value_pc # "panicked"
       /\ value_pc = "done"
            => /\ from_grpc = fvalue
               /\ FValue_eq(from_grpc, fvalue) <=> ~ContainsNaN(fvalue)

\* C15 witness: a timestamp before the epoch inside 20 arrays has made the
\* round trip.
C15_Witness ==
    /\ value_pc = "done"
    /\ fvalue = Nested("array", MAX_DEPTH, Timestamp(-1))
    /\ grpc_value # Panicked
    /\ from_grpc = fvalue

\* C16 as stated: to_grpc_value returns on every value of nesting depth 20 and
\* panics on every value of nesting depth 21, one whose innermost container
\* is empty included.
C16_Original ==
    value_pc # "to_grpc_value"
    => /\ NestingDepth(fvalue) = MAX_DEPTH => value_pc # "panicked"
       /\ NestingDepth(fvalue) = MAX_DEPTH + 1 => value_pc = "panicked"

\* C17: update_document called with no update field mask sends a request
\* without an update mask, and when the call succeeds the document's fields,
\* whatever they were, are those of the payload, in the response and on the
\* server; a get_document that succeeds returns the fields the server holds.
C17_UpdateWithoutMask ==
    /\ [][update_document(DocPaths[1], <<>>)
            => /\ calls'[1].request.update_mask = <<>>
               /\ calls'[1].status = "Ok"
                    => /\ result'.val[1].fields = UpdateFields
                       /\ serverFields'[DocPaths[1]] = UpdateFields]_vars
    /\ []((Returned("get_document") /\ calls[1].status = "Ok")
            => result.val[1].fields = serverFields[calls[1].name[4]])

\* C17 witness: an update with {bbb: null} and no mask has succeeded; the
\* response and the stored document hold bbb alone, without ssss.
C17_Witness ==
    /\ Returned("update_document")
    /\ calls[1].request.update_mask = <<>>
    /\ calls[1].status = "Ok"
    /\ result.val[1].fields = {<<"bbb", "null">>}
    /\ serverFields[DocPaths[1]] = {<<"bbb", "null">>}

\* C18: the shared token is at every moment one whole token, the initial one
\* or one a successful refresh returned, and so is what every reader was
\* given: the credential a request carries is that of such a token.
C18_WholeToken ==
    /\ \E k \in 0..refreshed : current_token = AccessToken(k)
    /\ \/ authorization = NoHeader
       \/ \E k \in 0..refreshed :
            authorization = Bearer(AccessToken(k).access_token)

\* C18 witness: a request was given the initial token, a refresh has since
\* stored the next one, and that one is whole.
C18_Witness ==
    /\ refreshed = 1
    /\ current_token = AccessToken(1)
    /\ authorization = Bearer(AccessToken(0).access_token)

\* C19: a step that attaches a credential takes it from the shared token as
\* it is and changes nothing else, neither the token nor the signal channel,
\* the flag, the mutex or the position of either loop; and it can always be
\* taken, whoever holds the mutex and whatever the refresh task is doing.
C19_InterceptorOnlyReads ==
    /\ [][authorization' # authorization
            => /\ authorization' = Bearer(current_token.access_token)
               /\ UNCHANGED <<current_token, refreshed, finished, finish_lock,
                              notified, lost_notify, rx, schedule_pc, refresh_pc,
                              stop_pc, manager>>]_vars
    /\ [](ENABLED auth_interceptor)

\* C19 witness: a request carries the refreshed token while the scheduling
\* thread holds the mutex, a refresh is in flight and a signal is queued.
C19_Witness ==
    /\ authorization = Bearer(AccessToken(1).access_token)
    /\ finish_lock = "schedule"
    /\ refresh_pc = "get_new_token"
    /\ rx # <<>>

\* C20: once the flag is set the scheduling loop eventually exits; woken with
\* the flag set it does nothing but exit.
C20_SchedulerExits ==
    /\ finished ~> (schedule_pc = "exited")
    /\ [][(finished /\ schedule_pc = "woken") => schedule_pc' \in {"woken", "exited"}]_vars

\* C20 witness: the notification came while the loop was not waiting, and the
\* loop has exited.
C20_Witness ==
    /\ finished
    /\ lost_notify
    /\ schedule_pc = "exited"

\* C21: a step that puts a forced signal on the channel puts exactly that one
\* signal at the end of the channel the scheduling thread sends on, and
\* leaves the token, the flag, the mutex, the pending notification and the
\* positions of the scheduling thread and of the refresh task as they were.
C21_ForceRefreshOnlySignals ==
    [][(Len(rx') > Len(rx) /\ rx'[Len(rx')] = "force")
         => /\ rx' = Append(rx, "force")
            /\ UNCHANGED <<current_token, refreshed, finished, finish_lock,
                           notified, lost_notify, schedule_pc, refresh_pc,
                           stop_pc, manager, authorization>>]_vars

\* C21 witness: the channel holds a signal of the scheduling thread and,
\* behind it, a forced one, while the scheduling thread is in its wait.
C21_Witness ==
    /\ rx = <<"schedule", "force">>
    /\ schedule_pc = "waiting"
    /\ ~finished
    /\ current_token = AccessToken(0)

\* C22: while the token manager runs, every token the authenticator can still
\* replace is eventually replaced by a newly obtained one, however many
\* refreshes fail before; the wait for it ends otherwise only with the
\* manager's shutdown.
C22_TokenEventuallyReplaced ==
    \A k \in 0..(MaxRefresh - 1) :
        (refreshed = k /\ current_token = AccessToken(k))
            ~> (finished \/ (refreshed > k /\ current_token = AccessToken(refreshed)))

\* C22 witness: with the manager running, a refresh has failed and the
\* scheduling thread, at its next check, has signalled again.
C22_Witness ==
    /\ ~finished /\ manager = "alive" /\ stop_pc = "none"
    /\ refresh_pc = "sleep"
    /\ rx = <<"schedule">>
    /\ schedule_pc = "lock"
    /\ current_token = AccessToken(0)

\* C23: the query QueryBuilder::build returns has no where-clause when no
\* filter was added, has the one added filter itself, not wrapped in a
\* composite, when one was added, and has one composite filter with operator
\* AND holding every added filter in the order of adding when two or more
\* were added.
C23_WhereClauseOfFilters ==
    structured_query # <<>> =>
        LET where == structured_query[1].where
        IN  /\ Len(filters) = 0 => where = <<>>
            /\ Len(filters) = 1 => where = <<filters[1]>>
            /\ Len(filters) >= 2 =>
                /\ Len(where) = 1
                /\ where[1].filter_type = "CompositeFilter"
                /\ where[1].op = "And"
                /\ where[1].filters = filters

C23_Witness ==
    /\ structured_query # <<>>
    /\ Len(filters) = 1
    /\ filters[1].filter_type = "CompositeFilter"
    /\ structured_query[1].where = <<filters[1]>>

\* the part of a name after NamePrefix
AfterDocuments(n) == SubSeq(n, Len(NamePrefix) + 1, Len(n))

\* t is collection/document pairs and nothing else: /c/d, /c/d/c/d, ...
IsPairs(t) ==
    /\ Len(t) % 4 = 0
    /\ \A i \in DOMAIN t : (t[i] = "/") <=> (i % 2 = 1)

\* C24 as stated: parsing a name <prefix>/documents<parent>/<collection>/<id>
\* gives the parent (none when empty), the collection and the id, the parent
\* made of whole collection/document pairs and the three parts joining back
\* into the path after "documents"; a name whose collection or document
\* segment is missing or empty, or whose parent is not a sequence of
\* collection/document pairs, fails to parse.
C24_Original ==
    parsed_path # <<>> =>
        LET path == AfterDocuments(document_name)
            parsed == parsed_path[1]
        IN  IF IsPairs(path) /\ path # <<>>
            THEN /\ parsed.type = "Ok"
                 /\ into_string(parsed) = path
                 /\ Len(parsed.collection_id) = 1
                 /\ Len(parsed.document_id) = 1
                 /\ parsed.parent_path # <<>> => IsPairs(parsed.parent_path[1])
                 /\ parsed.parent_path = <<>> <=> Len(path) = 4
            ELSE parsed.type = "Err"

\* C25 as stated: a SystemTime t at or after the epoch is bridged through
\* its seconds and nanoseconds without loss: to_fvalue(t) is Timestamp(t),
\* from_fvalue(Timestamp(t)) is t, and from_fvalue(to_fvalue(t)) is t.
C25_Original ==
    /\ serialized # <<>> => serialized[1] = Ok(Timestamp(system_time))
    /\ deserialized # <<>> =>
        /\ deserialized[1].of = Timestamp(system_time) => deserialized[1].to = Ok(system_time)
        /\ (serialized # <<>> /\ deserialized[1].of = serialized[1].val) => deserialized[1].to = Ok(system_time)

\* C26: on the commit path the one commit request carries the token begin
\* returned and, as its writes, exactly the operations the unit of work
\* passed to add_operation, in the order it passed them: each add_operation
\* puts the operation it is passed at the end of the handle's list and
\* leaves the ones before it in place, nothing else changes that list from
\* begin until in_transaction returns, and the commit request is made of
\* that list.
C26_CommitCarriesAddedOperations ==
    /\ [](\A i \in ClientCalls("commit") :
            (op = "in_transaction" /\ tx_ope.transaction # 0) =>
                /\ ClientCalls("commit") = {i}
                /\ calls[i].transaction = tx_ope.transaction
                /\ serverTx[calls[i].transaction] \in {"open", "committed"}
                /\ calls[i].writes = into_writes(ProjectId, tx_ope.operations)
                /\ calls[i].writes = into_writes(ProjectId, OpesOf(ctx, Len(calls[i].writes))))
    /\ [][(op = "in_transaction" /\ pc # "returned" /\ tx_ope.operations' # tx_ope.operations) =>
            /\ pc = "polling" /\ pc' = "polling"
            /\ tx_ope'.operations = Append(tx_ope.operations, OpeOf(ctx, Len(tx_ope.operations) + 1))
            /\ tx_ope'.transaction = tx_ope.transaction]_vars

\* C26 witness: a unit of work that added three operations has committed
C26_Witness ==
    /\ TxReturned /\ result.tag = "Ok"
    /\ Len(tx_ope.operations) = 3
    /\ \E i \in ClientCalls("commit") :
        /\ calls[i].status = "Ok"
        /\ calls[i].writes = into_writes(ProjectId, <<OpeOf(ctx, 1), OpeOf(ctx, 2), OpeOf(ctx, 3)>>)

\* C27 as stated: in each listing the first chunk fetch is invoked with the
\* empty token and every later one with the next-token that the fetch just
\* before it returned; the fetches are one after another.
C27_Original ==
    (op \in Listings /\ calls # <<>>) =>
        /\ calls[1].request.page_token = ""
        /\ \A i \in 2..Len(calls) :
            /\ calls[i - 1].status = "Ok"
            /\ calls[i].request.page_token = FetchedPages[i - 1].next_page_token

\* the finite listings a chunk source serves out of Pages: one page or more,
\* each but the last with a next-token of its own, the last with the empty one
FiniteListings ==
    {l \in UNION {[1..k -> Pages] : k \in 1..MaxPages} :
        /\ l[Len(l)].next_page_token = ""
        /\ \A i \in 1..(Len(l) - 1) : l[i].next_page_token # ""
        /\ \A i, j \in 1..(Len(l) - 1) : l[i].next_page_token = l[j].next_page_token => i = j}

\* the page of listing l that a fetch with token is answered with: the first
\* page for the empty token, else the page after the one that returned token
PageFor(l, token) ==
    IF token = "" THEN <<l[1]>>
    ELSE LET before == {i \in 1..(Len(l) - 1) : l[i].next_page_token = token}
         IN  IF before = {} THEN <<>> ELSE <<l[(CHOOSE i \in before : TRUE) + 1]>>

\* every chunk fetch so far was answered as a source serving l answers
ServedBy(l) ==
    \A i \in DOMAIN calls :
        /\ calls[i].status = "Ok"
        /\ calls[i].response = PageFor(l, calls[i].request.page_token)

\* C28 as stated: against a chunk source that serves a finite listing of
\* k >= 1 pages, a listing fetches no page twice and has returned after
\* exactly k chunk fetches.
C28_Original ==
    \A l \in FiniteListings :
        (op \in Listings /\ calls # <<>> /\ ServedBy(l)) =>
            /\ \A i, j \in DOMAIN calls : calls[i].response = calls[j].response => i = j
            /\ Len(calls) <= Len(l)
            /\ pc = "returned" <=> Len(calls) = Len(l)

\* C29: the refresh task takes the refresh signals one at a time: a signal
\* leaves the channel only when the task, waiting in recv with no refresh in
\* flight, takes the oldest one and starts the one refresh for it; while
\* that refresh is in flight (and while the task sleeps after a failure) the
\* signals that arrive, periodic or forced, only queue up behind the ones
\* waiting, and a refresh starts in no other way.
C29_OneRefreshAtATime ==
    [][/\ rx' # rx =>
            \/ /\ refresh_pc = "recv" /\ refresh_pc' = "get_new_token"
               /\ rx # <<>> /\ rx' = Tail(rx)
            \/ /\ Len(rx') = Len(rx) + 1
               /\ SubSeq(rx', 1, Len(rx)) = rx
               /\ refresh_pc' = refresh_pc
       /\ refresh_pc \in {"get_new_token", "sleep"} =>
            /\ Len(rx') >= Len(rx)
            /\ SubSeq(rx', 1, Len(rx)) = rx
       /\ (refresh_pc' = "get_new_token" /\ refresh_pc # "get_new_token") =>
            /\ refresh_pc = "recv"
            /\ rx # <<>> /\ rx' = Tail(rx)]_vars

\* C29 witness: a forced and a periodic signal arrived while a refresh is in
\* flight, and wait
C29_Witness ==
    /\ refresh_pc = "get_new_token"
    /\ rx = <<"force", "schedule">>

\* C30: a refresh that fails leaves the shared token as it was and is not
\* attempted again for the same signal: the signal is not put back, from the
\* pause after the failure the task only goes back to recv, where later
\* signals are taken as before, and the task ends only in recv, when the
\* channel is empty and closed.
C30_FailedRefreshNotRetried ==
    /\ [](refresh_pc = "exited" => (rx = <<>> /\ manager = "dropped" /\ schedule_pc = "exited"))
    /\ [][/\ (refresh_pc = "get_new_token" /\ refresh_pc' \notin {"get_new_token", "recv"}) =>
                /\ refresh_pc' = "sleep"
                /\ current_token' = current_token
                /\ refreshed' = refreshed
                /\ rx' = rx
          /\ refresh_pc = "sleep" =>
                /\ refresh_pc' \in {"sleep", "recv"}
                /\ current_token' = current_token
                /\ refreshed' = refreshed
          /\ (refresh_pc' = "exited" /\ refresh_pc # "exited") => refresh_pc = "recv"]_vars

\* C30 witness: after a refresh that succeeded one has failed; the token is
\* the one of the first, and the next signal waits
C30_Witness ==
    /\ refresh_pc = "sleep"
    /\ refreshed = 1
    /\ current_token = AccessToken(1)
    /\ rx # <<>>

\* C31: shutdown does not cancel the refresh task: the steps of
\* stop_auth_refreshing and of drop leave the task, the channel and the
\* shared token as they are; a refresh in flight when the flag is set can
\* still succeed and store its token, and it does come to its end; the
\* signals queued at that moment are still taken; and the task has ended
\* only when the manager's sender and the scheduling thread's are gone.
C31_ShutdownLeavesRefreshTask ==
    /\ [][(finished' # finished \/ stop_pc' # stop_pc \/ manager' # manager) =>
            /\ refresh_pc' = refresh_pc
            /\ rx' = rx
            /\ current_token' = current_token
            /\ refreshed' = refreshed]_vars
    /\ []((finished /\ refresh_pc = "get_new_token" /\ refreshed < MaxRefresh)
            => ENABLED get_new_token_Ok)
    /\ (finished /\ refresh_pc = "get_new_token") ~> (refresh_pc # "get_new_token")
    /\ \A n \in 1..MaxSignals : (finished /\ Len(rx) = n) ~> (Len(rx) < n)
    /\ [](refresh_pc = "exited" => (manager = "dropped" /\ schedule_pc = "exited"))

\* C31 witness: the flag was set while a refresh is in flight and a signal
\* waits behind it
C31_Witness ==
    /\ finished
    /\ refresh_pc = "get_new_token"
    /\ refreshed = 0
    /\ rx # <<>>

\* C32: at each check the scheduling loop sends a refresh signal exactly when
\* the current token has an expiration time and that time less the lead time
\* is not after the time Utc::now() gave; a token without an expiration time
\* causes no periodic signal; and a check sends at most one signal, the next
\* check coming only after the wait on the condition variable.
C32_SignalIffWithinLeadTime ==
    [][/\ (schedule_pc = "check" /\ schedule_pc' # "check") =>
            /\ schedule_pc' = "lock"
            /\ utc_now' \in {<<now>> : now \in Clock}
            /\ IF /\ current_token.expires_at # <<>>
                  /\ current_token.expires_at[1] - REFRESH_IN_MINUTES_TO_EXPIRE <= utc_now'[1]
               THEN rx' = Append(rx, "schedule")
               ELSE rx' = rx
       /\ (Len(rx') > Len(rx) /\ rx'[Len(rx')] = "schedule") =>
            /\ schedule_pc = "check" /\ schedule_pc' = "lock"
            /\ rx' = Append(rx, "schedule")
            /\ current_token.expires_at # <<>>
       /\ (schedule_pc' = "check" /\ schedule_pc # "check") => schedule_pc = "woken"
       /\ (schedule_pc = "lock" /\ schedule_pc' # "lock") => schedule_pc' = "wait"
       /\ (schedule_pc = "wait" /\ schedule_pc' # "wait") => schedule_pc' = "waiting"
       /\ (schedule_pc = "waiting" /\ schedule_pc' # "waiting") => schedule_pc' = "woken"]_vars

\* C32 witness: a token without an expiration time was checked at the latest
\* time of the clock and no signal was sent
C32_Witness ==
    /\ schedule_pc = "lock"
    /\ current_token.expires_at = <<>>
    /\ utc_now = <<MaxRefresh + 1>>
    /\ rx = <<>>

\* the commit and rollback calls the engine itself has issued
TxEndCalls == ClientCalls("commit") \cup ClientCalls("rollback")

\* C33: for the token one in_transaction call obtained, the engine issues at
\* most one commit call and at most one rollback call and never both: a step
\* that issues one of them issues exactly one, with that token, when none had
\* been issued before (whether the earlier would have succeeded or failed),
\* and it is the step on which in_transaction returns.
C33_TokenConsumedOnce ==
    /\ [](op = "in_transaction"
          => /\ Cardinality(TxEndCalls) <= 1
             /\ \A i \in TxEndCalls : /\ tx_ope.transaction # 0
                                      /\ calls[i].transaction = tx_ope.transaction
             /\ TxEndCalls # {} => pc = "returned")
    /\ [][(op = "in_transaction" /\ Len(calls') > Len(calls)
           /\ \E i \in (Len(calls) + 1)..Len(calls') :
                calls'[i].by = "client" /\ calls'[i].rpc \in {"commit", "rollback"})
          => /\ Len(calls') = Len(calls) + 1
             /\ TxEndCalls = {}
             /\ pc = "match" /\ pc' = "returned"]_vars

\* C33 witness: in_transaction returned after its one rollback call, made for
\* the token begin returned, had failed; no commit call was issued.
C33_Witness ==
    /\ TxReturned
    /\ ClientCalls("commit") = {}
    /\ \E i \in ClientCalls("rollback") : /\ calls[i].status # "Ok"
                                          /\ calls[i].transaction = tx_ope.transaction
    /\ serverTx[tx_ope.transaction] = "open"

\* C34: when the unit of work returned Ok(v) and the commit call ended with a
\* transport failure, in_transaction returns that failure as its error, the
\* value v is not in what it returns, no rollback call is issued for the
\* token, and the server is left as it was, the transaction still open.
C34_FailedCommitIsReturned ==
    /\ [](TxReturned /\ maybe_panic_in_tx.tag = "Ok"
          => \A i \in ClientCalls("commit") :
               calls[i].status # "Ok"
               => /\ calls[i].status \in TransportFailures
                  /\ result = Err(GrpcErrorStatus(calls[i].status))
                  /\ result.val = <<>>
                  /\ ClientCalls("rollback") = {}
                  /\ serverTx[tx_ope.transaction] = "open")
    /\ [][(pc = "match" /\ pc' = "returned" /\ maybe_panic_in_tx.tag = "Ok"
           /\ result'.tag = "Err" /\ result'.err.kind = "GrpcErrorStatus")
          => /\ Len(calls') = Len(calls) + 1
             /\ calls'[Len(calls')].rpc = "commit"
             /\ calls'[Len(calls')].status = result'.err.info
             /\ UNCHANGED server]_vars

\* C34 witness: a unit of work that queued operations and returned a value,
\* the commit call carrying them failed, and in_transaction returned the
\* failure with no rollback call made.
C34_Witness ==
    /\ TxReturned
    /\ maybe_panic_in_tx.tag = "Ok" /\ maybe_panic_in_tx.val # <<>>
    /\ tx_ope.operations # <<>>
    /\ \E i \in ClientCalls("commit") : /\ calls[i].status \in TransportFailures
                                        /\ calls[i].writes # <<>>
                                        /\ result = Err(GrpcErrorStatus(calls[i].status))
    /\ ClientCalls("rollback") = {}

\* C35: when the k-th chunk call of large_batch_write fails, the call returns
\* that failure as its error, with no write results; the k calls made are the
\* first k chunks of the list, the k-1 before it all succeeded, and the chunks
\* after the k-th are never sent; the failing step changes nothing on the
\* server, which still holds what the k-1 chunks wrote: applying their writes
\* again changes nothing.
C35_FailedChunkStopsTheLoop ==
    /\ []((Returned("large_batch_write") /\ \E i \in DOMAIN calls : calls[i].status # "Ok")
          => LET k == Len(calls)
                 all == slice_chunks(operations, MAX_BATCH_WRTIE_SIZE)
                 sent == Concat([i \in 1..(k - 1) |-> calls[i].writes])
             IN /\ calls[k].status # "Ok"
                /\ \A i \in 1..(k - 1) : calls[i].status = "Ok"
                /\ result = Err(GrpcErrorStatus(calls[k].status))
                /\ result.val = <<>>
                /\ k <= Len(all)
                /\ \A i \in 1..k : calls[i].writes = into_writes(ProjectId, all[i])
                /\ chunks = [i \in 1..(Len(all) - k) |-> all[k + i]]
                /\ serverDocs = ApplyWrites(serverDocs, sent)
                /\ serverFields = ApplyWritesFields(serverFields, sent))
    /\ [][(op = "large_batch_write" /\ pc = "next_chunk" /\ pc' = "returned"
           /\ result'.tag = "Err" /\ result'.err.kind = "GrpcErrorStatus")
          => /\ Len(calls') = Len(calls) + 1
             /\ UNCHANGED server]_vars
    /\ [][Returned("large_batch_write")
          => /\ calls' \in {calls, <<>>}
             /\ UNCHANGED server]_vars

\* C35 witness: 901 create operations, three chunks; the first call succeeded
\* and its documents are on the server, the second failed,
\* large_batch_write returned the error, and the third chunk was never sent.
C35_Witness ==
    /\ Returned("large_batch_write")
    /\ Len(operations) = 2 * MAX_BATCH_WRTIE_SIZE + 1
    /\ operations[1].operation = "Create"
    /\ Len(calls) = 2
    /\ calls[1].status = "Ok" /\ calls[2].status \in TransportFailures
    /\ result = Err(GrpcErrorStatus(calls[2].status))
    /\ Len(chunks) = 1
    /\ DocPathSet \subseteq serverDocs

\* the refresh task takes one signal off the channel and starts the refresh
\* attempt for it
RefreshAttemptStarts ==
    /\ rx # <<>> /\ rx' = Tail(rx)
    /\ refresh_pc = "recv" /\ refresh_pc' = "get_new_token"

\* C36: no refresh signal is coalesced or dropped.  A forced signal can be
\* sent whatever already waits in the channel and whatever the refresh task
\* is doing, and sending puts it behind the signals waiting; the channel gets
\* shorter by nothing but the start of a refresh attempt, which takes exactly
\* the oldest signal, so the signals are served in the order sent, one
\* attempt each; and while signals wait further attempts keep starting: of
\* two signals queued during a refresh the older gets the next attempt, with
\* the younger then first in the channel, and the channel is not left
\* non-empty without another attempt starting.
C36_EverySignalOneAttempt ==
    /\ []((manager = "alive" /\ stop_pc = "none" /\ Len(rx) < MaxSignals)
          => ENABLED (force_refresh_token /\ rx' = Append(rx, "force")))
    /\ [][/\ Len(rx') < Len(rx) => RefreshAttemptStarts
          /\ Len(rx') >= Len(rx) => /\ Len(rx') <= Len(rx) + 1
                                    /\ SubSeq(rx', 1, Len(rx)) = rx
                                    /\ refresh_pc' # refresh_pc => refresh_pc' # "get_new_token"]_vars
    /\ (<>[](rx = <<>>) \/ []<><<RefreshAttemptStarts>>_vars)
    /\ \A a, b \in {"force", "schedule"} :
         a # b => ((refresh_pc = "get_new_token" /\ rx = <<a, b>>)
                     ~> (refresh_pc = "get_new_token" /\ rx # <<>> /\ Head(rx) = b))

\* C36 witness: two signals, the periodic one first, were queued during a
\* refresh that has since failed; the task pauses before it takes them.
C36_Witness ==
    /\ refresh_pc = "sleep"
    /\ rx = <<"schedule", "force">>
    /\ refreshed = 0
    /\ ~finished

\* the scheduling thread puts its signal on the channel
PeriodicSignalSent == Len(rx') > Len(rx) /\ rx'[Len(rx')] = "schedule"

\* C37: the scheduling thread sends only on the step from its check to the
\* lock; once the flag is set the flag stays set and the thread, if it is
\* not at the check, never comes back to it, so after the flag was set there
\* is at most the one send of a check already reached; the flag is set while
\* the thread does not hold the mutex, the thread reads it holding the mutex
\* and, reading it set, exits; exited, it stays so and sends nothing.
C37_AtMostOneSignalAfterShutdown ==
    /\ [][/\ PeriodicSignalSent => (schedule_pc = "check" /\ schedule_pc' = "lock")
          /\ finished => finished'
          /\ (finished /\ schedule_pc # "check") => (schedule_pc' # "check" /\ ~PeriodicSignalSent)
          /\ (finished /\ schedule_pc = "woken") => schedule_pc' \in {"woken", "exited"}
          /\ schedule_pc = "exited" => (schedule_pc' = "exited" /\ ~PeriodicSignalSent)
          /\ (~finished /\ finished') => schedule_pc \in {"check", "lock", "waiting"}]_vars
    /\ [](schedule_pc = "exited" => finished)

\* C37 witness: the manager was stopped and then dropped; the scheduling
\* thread, which had reached its check, has sent one signal and stands before
\* the lock, with the flag set.
C37_Witness ==
    /\ finished
    /\ manager = "dropped"
    /\ schedule_pc = "lock"
    /\ utc_now # <<>>
    /\ rx = <<"schedule">>
    /\ refresh_pc = "recv"

\* C38: a Create and an Upsert on the same path become the same wire write:
\* an update of the document, with no update mask and no precondition.  So
\* after a batch-write call that succeeded, of batch_write or of a chunk of
\* large_batch_write, each document its update writes name, those made from
\* Create operations included, is on the server with the fields written,
\* whether or not it was there before, and batch_write of a Create on a
\* document that exists can return Ok.
C38_CreateIsUpsert ==
    /\ \A p \in DocPathSet :
         LET create == into_write(DocumentWriteOperation("Create", p), ProjectId)
             upsert == into_write(DocumentWriteOperation("Upsert", p), ProjectId)
         IN /\ create = upsert
            /\ create.operation = "Update"
            /\ create.update_mask = <<>>
            /\ create.current_document = <<>>
    /\ \A i \in DOMAIN calls :
         (calls[i].rpc = "batch_write" /\ calls[i].status = "Ok")
         => \A j \in DOMAIN calls[i].writes :
              calls[i].writes[j].operation = "Update"
              => /\ calls[i].writes[j].name[4] \in serverDocs
                 /\ serverFields[calls[i].writes[j].name[4]] = CreateFields
    /\ (pc = "idle" /\ DocPaths[1] \in serverDocs)
         => ENABLED (batch_write(OpesOf("Create", 1)) /\ result'.tag = "Ok")

\* C38 witness: batch_write of one Create returned Ok; the write it sent is
\* the write of an Upsert on that path, and the document is on the server.
C38_Witness ==
    /\ Returned("batch_write")
    /\ Len(operations) = 1 /\ operations[1].operation = "Create"
    /\ result.tag = "Ok"
    /\ calls[1].writes = <<into_write(DocumentWriteOperation("Upsert", operations[1].document_path), ProjectId)>>
    /\ operations[1].document_path \in serverDocs
    /\ serverFields[operations[1].document_path] = CreateFields

\* C39 as stated: for every (optional parent, collection, document id) the
\* operation new_write_ope_create builds has the document path
\* doc_path(parent, collection, id), which is the path of the operations
\* new_write_ope_update, new_write_ope_upsert and new_write_ope_delete build
\* from the same arguments, the parent absent or present.
C39_Original ==
    (helper_args # <<>> /\ write_opes["new_write_ope_create"] # <<>>)
    => LET a == helper_args[1]
           created == write_opes["new_write_ope_create"][1]
       IN /\ ~created.panicked
          /\ created.ope[1].document_path = doc_path(a.parent, a.collection_id, a.doc_id)
          /\ \A h \in Helpers :
               write_opes[h] # <<>>
               => /\ ~write_opes[h][1].panicked
                  /\ write_opes[h][1].ope[1].document_path = created.ope[1].document_path

\* C40: to_fvalue of a native integer n returns Ok(Int(v)), never an error,
\* with v in the range of i64; v is n for n of i8, i16, i32, i64, u8, u16,
\* u32 and for n of u64 below 2^63; for n of u64 from 2^63 on, v is negative
\* and is n - 2^64: its magnitude and n add up to 2^64.
C40_IntegersWidenU64Wraps ==
    (native # <<>> /\ serialized # <<>>)
    => LET n == native[1]
           r == serialized[1]
       IN /\ r.tag = "Ok"
          /\ r.val.type = "Int"
          /\ InRange("i64", r.val.value)
          /\ IF n.ty # "u64" \/ BelowPow2(n.value.mag, 63)
             THEN r.val.value = n.value
             ELSE /\ r.val.value.neg
                  /\ AddMag(r.val.value.mag, n.value.mag) = [carry |-> 1, sum |-> <<0, 0, 0, 0>>]

\* C40 witness: the u64 2^64 - 1 was serialized and Int(-1) came back.
C40_Witness ==
    /\ native = <<[ty |-> "u64", value |-> [neg |-> FALSE, mag |-> <<65535, 65535, 65535, 65535>>]]>>
    /\ serialized = <<Ok(FInt([neg |-> TRUE, mag |-> <<0, 0, 0, 1>>]))>>

====
